---- MODULE Spec2Model ----
(***************************************************************************)
(* A model of the bidirected variation graph store of vg (src/src/vg.cpp): *)
(* the node and edge lists, the id index, the canonical edge index, the    *)
(* two per-side adjacency lists, the id counter and the embedded paths,    *)
(* with the operations that mutate them.                                   *)
(***************************************************************************)
EXTENDS Integers, Sequences, FiniteSets, TLC

VARIABLES
    graph_node,      \* graph.node: the list of Node records [id, sequence]
    graph_edge,      \* graph.edge: the list of Edge records
    node_by_id,      \* id -> Node* (the position of the pointed-to node in graph_node)
    edge_by_sides,   \* canonical pair of sides -> Edge* (position in graph_edge)
    edges_on_start,  \* id -> list of (other id, relative orientation)
    edges_on_end,    \* id -> list of (other id, relative orientation)
    current_id,      \* the counter create_node(seq) draws ids from
    paths,           \* path name -> list of mappings [node_id, is_reverse, length, rank]
    last             \* the last call made: [op, args, out]

vars == <<graph_node, graph_edge, node_by_id, edge_by_sides, edges_on_start,
          edges_on_end, current_id, paths, last>>

\* ------------------------------------------------------------------ bounds
MaxNodes == 2
MaxEdges == 2
MaxId == 3
MaxMappings == 2
MaxEdits == 3

\* ------------------------------------------------------------- primitives
EmptyMap == [x \in {} |-> x]

RemoveKey(f, k) == [x \in DOMAIN f \ {k} |-> f[x]]

PutKey(f, k, v) == [x \in DOMAIN f \cup {k} |-> IF x = k THEN v ELSE f[x]]

\* operator[] followed by emplace_back on the vector found (or created) there
EmplaceBack(f, k, v) == PutKey(f, k, IF k \in DOMAIN f THEN Append(f[k], v) ELSE <<v>>)

IndexOf(s, v) == IF \E i \in 1..Len(s) : s[i] = v
                 THEN CHOOSE i \in 1..Len(s) : s[i] = v /\ \A j \in 1..(i-1) : s[j] # v
                 ELSE 0

\* swap_remove: the first element equal to v is overwritten by the last, which is popped
swap_remove(s, v) ==
    LET i == IndexOf(s, v) IN
    IF i = 0 THEN s
    ELSE SubSeq([s EXCEPT ![i] = s[Len(s)]], 1, Len(s) - 1)

complement(c) == CASE c = "A" -> "T" [] c = "C" -> "G" [] c = "G" -> "C"
                   [] c = "T" -> "A" [] OTHER -> "N"

reverse_complement(s) == [i \in 1..Len(s) |-> complement(s[Len(s) + 1 - i])]

\* std::string::substr(pos, count) with count converted to size_t: a negative
\* or too large count takes the rest of the string
substr(s, pos, count) ==
    LET n == IF count < 0 \/ count > Len(s) - pos THEN Len(s) - pos ELSE count
    IN SubSeq(s, pos + 1, pos + n)

\* ------------------------------------------------------------------ sides
NodeSide(n, is_end) == <<n, is_end>>

\* NodeSide::operator< : by node id, then start before end
SideLess(a, b) == a[1] < b[1] \/ (a[1] = b[1] /\ ~a[2] /\ b[2])

minmax(a, b) == IF SideLess(b, a) THEN <<b, a>> ELSE <<a, b>>

PairLess(p, q) == SideLess(p[1], q[1]) \/ (p[1] = q[1] /\ SideLess(p[2], q[2]))

\* the iteration order of a std::set of pairs
RECURSIVE SortedPairs(_)
SortedPairs(ps) ==
    IF ps = {} THEN <<>>
    ELSE LET m == CHOOSE x \in ps : \A y \in ps \ {x} : PairLess(x, y)
         IN <<m>> \o SortedPairs(ps \ {m})

pair_from_edge(e) == minmax(NodeSide(e.from, ~e.from_start), NodeSide(e.to, e.to_end))

pair_from_start_edge(id, other) ==
    minmax(NodeSide(id, FALSE), NodeSide(other[1], ~other[2]))

pair_from_end_edge(id, other) ==
    minmax(NodeSide(id, TRUE), NodeSide(other[1], other[2]))

Edge(from, to, from_start, to_end) ==
    [from |-> from, to |-> to, from_start |-> from_start, to_end |-> to_end]

\* ------------------------------------------------------- the store, as a value
St == [node |-> graph_node, edge |-> graph_edge, node_by_id |-> node_by_id,
       edge_by_sides |-> edge_by_sides, edges_on_start |-> edges_on_start,
       edges_on_end |-> edges_on_end, current_id |-> current_id, paths |-> paths]

Becomes(S) ==
    /\ graph_node' = S.node
    /\ graph_edge' = S.edge
    /\ node_by_id' = S.node_by_id
    /\ edge_by_sides' = S.edge_by_sides
    /\ edges_on_start' = S.edges_on_start
    /\ edges_on_end' = S.edges_on_end
    /\ current_id' = S.current_id
    /\ paths' = S.paths

has_node(S, id) == id \in DOMAIN S.node_by_id

has_edge(S, e) == pair_from_edge(e) \in DOMAIN S.edge_by_sides

\* a variant that looks the pair of sides up in the order given
get_edge_as_given(S, side1, side2) ==
    IF <<side1, side2>> \in DOMAIN S.edge_by_sides
    THEN S.edge_by_sides[<<side1, side2>>]
    ELSE 0

\* the Edge* between two sides, 0 for NULL
get_edge(S, side1, side2) ==
    IF minmax(side1, side2) \in DOMAIN S.edge_by_sides
    THEN S.edge_by_sides[minmax(side1, side2)]
    ELSE 0

edges_start(S, id) == IF id \in DOMAIN S.edges_on_start THEN S.edges_on_start[id] ELSE <<>>

edges_end(S, id) == IF id \in DOMAIN S.edges_on_end THEN S.edges_on_end[id] ELSE <<>>

max_node_id(S) ==
    IF Len(S.node) = 0 THEN 0
    ELSE CHOOSE m \in {S.node[i].id : i \in 1..Len(S.node)} :
             \A i \in 1..Len(S.node) : S.node[i].id <= m

\* ------------------------------------------------------------------ nodes
create_node_id(S, seq, id) ==
    [S EXCEPT !.node = Append(@, [id |-> id, sequence |-> seq]),
              !.node_by_id = PutKey(@, id, Len(S.node) + 1)]

create_node(S, seq) ==
    LET cur == IF S.current_id = 1 THEN max_node_id(S) + 1 ELSE S.current_id
    IN [create_node_id(S, seq, cur) EXCEPT !.current_id = cur + 1]

\* ------------------------------------------------------------------ edges
\* a variant that lists a self loop on a single side twice, as if it joined
\* two sides
index_edge_on_both_ends(S, e, ptr) ==
    LET rel == e.from_start # e.to_end
        on_start == IF e.from_start
                    THEN EmplaceBack(S.edges_on_start, e.from, <<e.to, rel>>)
                    ELSE S.edges_on_start
        on_end == IF e.from_start
                  THEN S.edges_on_end
                  ELSE EmplaceBack(S.edges_on_end, e.from, <<e.to, rel>>)
    IN [S EXCEPT !.edge_by_sides = PutKey(@, pair_from_edge(e), ptr),
                 !.edges_on_start = IF ~e.to_end
                                    THEN EmplaceBack(on_start, e.to, <<e.from, rel>>)
                                    ELSE on_start,
                 !.edges_on_end = IF e.to_end
                                  THEN EmplaceBack(on_end, e.to, <<e.from, rel>>)
                                  ELSE on_end]

index_edge_by_node_sides(S, e, ptr) ==
    LET rel == e.from_start # e.to_end
        both == e.from # e.to \/ e.from_start = e.to_end
        on_start == IF e.from_start
                    THEN EmplaceBack(S.edges_on_start, e.from, <<e.to, rel>>)
                    ELSE S.edges_on_start
        on_end == IF e.from_start
                  THEN S.edges_on_end
                  ELSE EmplaceBack(S.edges_on_end, e.from, <<e.to, rel>>)
    IN [S EXCEPT !.edge_by_sides = PutKey(@, pair_from_edge(e), ptr),
                 !.edges_on_start = IF both /\ ~e.to_end
                                    THEN EmplaceBack(on_start, e.to, <<e.from, rel>>)
                                    ELSE on_start,
                 !.edges_on_end = IF both /\ e.to_end
                                  THEN EmplaceBack(on_end, e.to, <<e.from, rel>>)
                                  ELSE on_end]

\* swap_remove on the adjacency list of one side, then the erase of a list left empty
UnindexSide(f, id, entry) ==
    IF id \in DOMAIN f
    THEN IF swap_remove(f[id], entry) = <<>> THEN RemoveKey(f, id)
         ELSE [f EXCEPT ![id] = swap_remove(@, entry)]
    ELSE f

unindex_edge_by_node_sides(S, e) ==
    IF ~has_edge(S, e) THEN S
    ELSE
    LET rel == e.from_start # e.to_end
        both == e.from # e.to \/ e.from_start = e.to_end
        on_start == IF e.from_start
                    THEN UnindexSide(S.edges_on_start, e.from, <<e.to, rel>>)
                    ELSE S.edges_on_start
        on_end == IF e.from_start
                  THEN S.edges_on_end
                  ELSE UnindexSide(S.edges_on_end, e.from, <<e.to, rel>>)
    IN [S EXCEPT !.edge_by_sides = RemoveKey(@, pair_from_edge(e)),
                 !.edges_on_start = IF both /\ ~e.to_end
                                    THEN UnindexSide(on_start, e.to, <<e.from, rel>>)
                                    ELSE on_start,
                 !.edges_on_end = IF both /\ e.to_end
                                  THEN UnindexSide(on_end, e.to, <<e.from, rel>>)
                                  ELSE on_end]

set_edge(S, e, ptr) == IF ~has_edge(S, e) THEN index_edge_by_node_sides(S, e, ptr) ELSE S

\* a variant that records every edge from the end of from to the start of to
create_edge_end_to_start(S, from, to, from_start, to_end) ==
    IF get_edge(S, NodeSide(from, TRUE), NodeSide(to, FALSE)) # 0
    THEN S
    ELSE set_edge([S EXCEPT !.edge = Append(@, Edge(from, to, FALSE, FALSE))],
                  Edge(from, to, FALSE, FALSE), Len(S.edge) + 1)

create_edge(S, from, to, from_start, to_end) ==
    IF get_edge(S, NodeSide(from, ~from_start), NodeSide(to, to_end)) # 0
    THEN S
    ELSE set_edge([S EXCEPT !.edge = Append(@, Edge(from, to, from_start, to_end))],
                  Edge(from, to, from_start, to_end), Len(S.edge) + 1)

\* create_edge(NodeSide, NodeSide)
create_edge_sides(S, side1, side2) ==
    create_edge(S, side1[1], side2[1], ~side1[2], side2[2])

\* an Edge* keeps pointing to its object when SwapElements moves the object
Repoint(f, old, new) == [k \in DOMAIN f |-> IF f[k] = old THEN new ELSE f[k]]

\* destroy_edge(Edge*)
destroy_edge(S, ptr) ==
    IF ptr = 0 THEN S
    ELSE IF ~has_edge(S, S.edge[ptr]) THEN S
    ELSE
    LET Remove(U, e) ==
            LET lei == Len(U.edge)
                tei == ptr
            IN IF lei # tei
               THEN [set_edge([U EXCEPT !.edge = [@ EXCEPT ![tei] = U.edge[lei], ![lei] = e],
                                        !.edge_by_sides = Repoint(@, lei, tei)],
                              U.edge[lei], tei)
                        EXCEPT !.edge = SubSeq(@, 1, lei - 1)]
               ELSE [U EXCEPT !.edge = SubSeq(@, 1, lei - 1)]
    IN Remove(unindex_edge_by_node_sides(S, S.edge[ptr]), S.edge[ptr])

\* destroy_edge(NodeSide, NodeSide)
destroy_edge_sides(S, side1, side2) == destroy_edge(S, get_edge(S, side1, side2))

RECURSIVE DestroyEdges(_, _)
DestroyEdges(S, ps) ==
    IF ps = <<>> THEN S
    ELSE DestroyEdges(destroy_edge_sides(S, Head(ps)[1], Head(ps)[2]), Tail(ps))

\* destroy_node(Node*): ptr is the position of the node object in graph_node
destroy_node(S, ptr) ==
    IF ~has_node(S, S.node[ptr].id) THEN S
    ELSE
    LET id == S.node[ptr].id
        edges_to_destroy ==
            {pair_from_start_edge(id, edges_start(S, id)[i]) :
                 i \in 1..Len(edges_start(S, id))}
            \cup {pair_from_end_edge(id, edges_end(S, id)[i]) :
                 i \in 1..Len(edges_end(S, id))}
        Remove(S1) ==
            LET lni == Len(S1.node)
                tni == ptr
            IN [S1 EXCEPT
                   !.edges_on_start = RemoveKey(@, id),
                   !.edges_on_end = RemoveKey(@, id),
                   !.node = IF lni # tni
                            THEN SubSeq([@ EXCEPT ![tni] = S1.node[lni]], 1, lni - 1)
                            ELSE SubSeq(@, 1, lni - 1),
                   !.node_by_id = IF lni # tni
                                  THEN RemoveKey(PutKey(Repoint(@, lni, tni),
                                                        S1.node[lni].id, tni), id)
                                  ELSE RemoveKey(@, id)]
    IN Remove(DestroyEdges(S, SortedPairs(edges_to_destroy)))

\* destroy_node(Node*) on a node object that an earlier destroy_node deleted.
\* The id is read from the freed object: freed_id is the value read. An id not
\* in use ends the call. With an id in use the edges and the index entries of
\* that id go, and node_index, which has no entry for the pointer, gives the
\* first position of the list as the one to swap with the last and release.
\* The object released is the first of the list: an entry of node_by_id that
\* is left pointing to it dangles, and is written as the negated id the
\* object had.
destroy_deleted_node(S, freed_id) ==
    IF ~has_node(S, freed_id) THEN S
    ELSE
    LET id == freed_id
        edges_to_destroy ==
            {pair_from_start_edge(id, edges_start(S, id)[i]) :
                 i \in 1..Len(edges_start(S, id))}
            \cup {pair_from_end_edge(id, edges_end(S, id)[i]) :
                 i \in 1..Len(edges_end(S, id))}
        Remove(S1) ==
            LET lni == Len(S1.node)
                tni == 1
                dangling == [k \in DOMAIN S1.node_by_id |->
                                IF S1.node_by_id[k] = tni THEN 0 - S1.node[tni].id
                                ELSE S1.node_by_id[k]]
            IN [S1 EXCEPT
                   !.edges_on_start = RemoveKey(@, id),
                   !.edges_on_end = RemoveKey(@, id),
                   !.node = IF lni # tni
                            THEN SubSeq([@ EXCEPT ![tni] = S1.node[lni]], 1, lni - 1)
                            ELSE SubSeq(@, 1, lni - 1),
                   !.node_by_id = IF lni # tni
                                  THEN RemoveKey(PutKey(Repoint(dangling, lni, tni),
                                                        S1.node[lni].id, tni), id)
                                  ELSE RemoveKey(dangling, id)]
    IN Remove(DestroyEdges(S, SortedPairs(edges_to_destroy)))

\* swap_node_id(id_t, id_t): the node found under node_id gets new_id and its
\* edges are destroyed and created again with the new id
FixEdgesOf(S, adj, old_id, at_end) ==
    {S.edge[S.edge_by_sides[
         IF at_end THEN pair_from_end_edge(old_id, adj[i])
                   ELSE pair_from_start_edge(old_id, adj[i])]] : i \in 1..Len(adj)}

fix_edge_create(e, old_id, new_id) ==
    IF e.from = old_id
    THEN IF e.to = old_id
         THEN <<NodeSide(new_id, ~e.from_start), NodeSide(new_id, e.to_end)>>
         ELSE <<NodeSide(new_id, ~e.from_start), NodeSide(e.to, e.to_end)>>
    ELSE <<NodeSide(e.from, ~e.from_start), NodeSide(new_id, e.to_end)>>

RECURSIVE CreateEdgesSides(_, _)
CreateEdgesSides(S, ps) ==
    IF ps = <<>> THEN S
    ELSE CreateEdgesSides(create_edge_sides(S, Head(ps)[1], Head(ps)[2]), Tail(ps))

swap_node_id(S, node_id, new_id) ==
    LET ptr == S.node_by_id[node_id]
        old_id == S.node[ptr].id
        fixed == FixEdgesOf(S, edges_start(S, old_id), old_id, FALSE)
                 \cup FixEdgesOf(S, edges_end(S, old_id), old_id, TRUE)
        edges_to_destroy ==
            {<<NodeSide(e.from, ~e.from_start), NodeSide(e.to, e.to_end)>> : e \in fixed}
        edges_to_create == {fix_edge_create(e, old_id, new_id) : e \in fixed}
    IN CreateEdgesSides(
           DestroyEdges([S EXCEPT !.node = [@ EXCEPT ![ptr] = [@ EXCEPT !.id = new_id]],
                                  !.node_by_id = PutKey(RemoveKey(@, old_id), new_id, ptr)],
                        SortedPairs(edges_to_destroy)),
           SortedPairs(edges_to_create))

\* ------------------------------------------------------------ handle graph
get_handle(id, is_reverse) == <<id, is_reverse>>

get_id(handle) == handle[1]

get_is_reverse(handle) == handle[2]

flip(handle) == <<handle[1], ~handle[2]>>

get_sequence(S, handle) ==
    LET sequence == S.node[S.node_by_id[get_id(handle)]].sequence
    IN IF get_is_reverse(handle) THEN reverse_complement(sequence) ELSE sequence

\* a variant that takes the flag of the adjacency entry as the orientation,
\* whatever the orientation of the handle
follow_edges_unflipped(S, handle, go_left) ==
    LET is_reverse == get_is_reverse(handle)
        edge_set == IF go_left # is_reverse THEN S.edges_on_start ELSE S.edges_on_end
    IN IF get_id(handle) \in DOMAIN edge_set
       THEN [i \in 1..Len(edge_set[get_id(handle)]) |->
                get_handle(edge_set[get_id(handle)][i][1],
                           edge_set[get_id(handle)][i][2])]
       ELSE <<>>

\* the handles the iteratee is called on, in call order, when it never stops
follow_edges(S, handle, go_left) ==
    LET is_reverse == get_is_reverse(handle)
        edge_set == IF go_left # is_reverse THEN S.edges_on_start ELSE S.edges_on_end
    IN IF get_id(handle) \in DOMAIN edge_set
       THEN [i \in 1..Len(edge_set[get_id(handle)]) |->
                get_handle(edge_set[get_id(handle)][i][1],
                           is_reverse # edge_set[get_id(handle)][i][2])]
       ELSE <<>>

\* follow_edges with an iteratee that returns false on the handles of stop:
\* the handles it is called on, in call order, and the value returned
follow_edges_until(S, handle, go_left, stop) ==
    LET Run(all) ==
            LET stops == {i \in 1..Len(all) : all[i] \in stop}
            IN IF stops = {}
               THEN [visited |-> all, ret |-> TRUE]
               ELSE [visited |-> SubSeq(all, 1, CHOOSE i \in stops :
                                                    \A j \in stops : i <= j),
                     ret |-> FALSE]
    IN Run(follow_edges(S, handle, go_left))

\* create_edge(handle_t, handle_t): get_node throws "No node ... in graph" on
\* a handle of a node the graph does not have, before any edge is made, and
\* the graph is left as it was
create_edge_handles(S, left, right) ==
    IF has_node(S, get_id(left)) /\ has_node(S, get_id(right))
    THEN create_edge(S, get_id(left), get_id(right),
                     get_is_reverse(left), get_is_reverse(right))
    ELSE S

\* destroy_edge(handle_t, handle_t)
destroy_edge_handles(S, left, right) ==
    destroy_edge(S, get_edge(S, NodeSide(get_id(left), ~get_is_reverse(left)),
                                NodeSide(get_id(right), get_is_reverse(right))))

\* the two loops that remove the edges: pairs is the list of (left, right)
RECURSIVE DestroyHandleEdges(_, _)
DestroyHandleEdges(S, pairs) ==
    IF pairs = <<>> THEN S
    ELSE DestroyHandleEdges(destroy_edge_handles(S, Head(pairs)[1], Head(pairs)[2]),
                            Tail(pairs))

\* the handle an old neighbour is connected as: the old handle itself and its
\* flip stand for self loops
Reconnect(other, handle, new_handle) ==
    IF other = handle THEN flip(new_handle)
    ELSE IF other = flip(handle) THEN new_handle
    ELSE other

\* the two loops that connect the new node: pairs is the list of (left, right).
\* create_edge(handle_t, handle_t) throws on a handle of a node the graph does
\* not have, which ends the loops with the edges made so far
RECURSIVE CreateHandleEdges(_, _)
CreateHandleEdges(S, pairs) ==
    IF pairs = <<>> THEN S
    ELSE IF ~has_node(S, get_id(Head(pairs)[1])) \/ ~has_node(S, get_id(Head(pairs)[2]))
    THEN S
    ELSE CreateHandleEdges(create_edge_handles(S, Head(pairs)[1], Head(pairs)[2]),
                           Tail(pairs))

\* apply_orientation does not return: get_node throws "No node ... in graph"
\* for the node of the handle, or for a neighbour the graph does not have
apply_orientation_throws(S, handle) ==
    /\ get_is_reverse(handle)
    /\ \/ ~has_node(S, get_id(handle))
       \/ \E go_left \in BOOLEAN :
              \E i \in 1..Len(follow_edges(S, handle, go_left)) :
                  ~has_node(S, get_id(follow_edges(S, handle, go_left)[i]))

\* apply_orientation: the store afterwards (the handle returned is
\* apply_orientation_ret). Where get_node throws the store is the one of the
\* moment of the throw: without the edges of the node where the node is not
\* in the graph, and with the node made anew and the edges made before the
\* one to the missing neighbour otherwise
apply_orientation(S, handle) ==
    IF ~get_is_reverse(handle) THEN S
    ELSE IF ~has_node(S, get_id(handle))
    THEN LET right_nodes == follow_edges(S, handle, FALSE)
             left_nodes == follow_edges(S, handle, TRUE)
         IN DestroyHandleEdges(S, [i \in 1..Len(left_nodes) |-> <<left_nodes[i], handle>>]
                                  \o [i \in 1..Len(right_nodes) |-> <<handle, right_nodes[i]>>])
    ELSE
    LET right_nodes == follow_edges(S, handle, FALSE)
        left_nodes == follow_edges(S, handle, TRUE)
        id == get_id(handle)
        new_handle == get_handle(id, FALSE)
        to_destroy == [i \in 1..Len(left_nodes) |-> <<left_nodes[i], handle>>]
                      \o [i \in 1..Len(right_nodes) |-> <<handle, right_nodes[i]>>]
        to_create ==
            [i \in 1..Len(left_nodes) |->
                <<Reconnect(left_nodes[i], handle, new_handle), new_handle>>]
            \o [i \in 1..Len(right_nodes) |->
                <<new_handle, Reconnect(right_nodes[i], handle, new_handle)>>]
        Recreate(S1) ==
            create_node_id(destroy_node(S1, S1.node_by_id[id]), get_sequence(S1, handle), id)
    IN CreateHandleEdges(Recreate(DestroyHandleEdges(S, to_destroy)), to_create)

apply_orientation_ret(handle) ==
    IF ~get_is_reverse(handle) THEN handle ELSE get_handle(get_id(handle), FALSE)

\* ------------------------------------------------------------------ paths
Mapping(node_id, is_reverse, length, rank) ==
    [node_id |-> node_id, is_reverse |-> is_reverse, length |-> length, rank |-> rank]

Reverse(s) == [i \in 1..Len(s) |-> s[Len(s) + 1 - i]]

RECURSIVE Flatten(_)
Flatten(ss) == IF ss = <<>> THEN <<>> ELSE Head(ss) \o Flatten(Tail(ss))

\* cut_mapping(m, offset): the two mappings a mapping is cut into at an offset
\* along it. At offset 0 the left one is a new mapping of no length and no
\* rank in the orientation of m, at an offset of the length or more the right
\* one is. The offset is an unsigned integer: a difference below 0 handed in
\* is a value beyond every length.
cut_mapping(m, offset) ==
    LET empty == [m EXCEPT !.length = 0, !.rank = 0]
    IN IF offset = 0 THEN <<empty, m>>
       ELSE IF offset < 0 \/ offset >= m.length THEN <<m, empty>>
       ELSE <<[m EXCEPT !.length = offset], [m EXCEPT !.length = m.length - offset]>>

\* Paths::append_mapping: at the end of the path; a mapping without a rank
\* gets the rank after the last one
append_mapping(ps, name, m) ==
    LET path == IF name \in DOMAIN ps THEN ps[name] ELSE <<>>
        ranked == IF m.rank # 0 THEN m
                  ELSE [m EXCEPT !.rank = IF path = <<>> THEN 1
                                          ELSE path[Len(path)].rank + 1]
    IN PutKey(ps, name, Append(path, ranked))

\* Paths::has_node_mapping
has_node_mapping(ps, id) ==
    \E name \in DOMAIN ps : \E i \in 1..Len(ps[name]) : ps[name][i].node_id = id

\* the pieces one mapping on the divided node is cut into, in the order of
\* the parts (the loop over the positions and the last part)
RECURSIVE mapping_parts(_, _, _, _, _, _)
mapping_parts(remainder, positions, i, local_offset, size, part_ids) ==
    IF i > Len(positions)
    THEN <<[remainder EXCEPT !.node_id = part_ids[Len(part_ids)]]>>
    ELSE LET pos == positions[i]
             cut == IF remainder.is_reverse
                    THEN cut_mapping(remainder, size - pos)
                    ELSE cut_mapping(remainder, pos - local_offset)
             halves == IF remainder.is_reverse THEN <<cut[2], cut[1]>> ELSE cut
         IN <<[halves[1] EXCEPT !.node_id = part_ids[i]]>>
            \o mapping_parts(halves[2], positions, i + 1, pos, size, part_ids)

\* remove_mapping then insert_mapping of the pieces before the place it was at:
\* a reverse mapping gets its pieces last part first
divide_mapping_in_path(path, id, positions, size, part_ids) ==
    Flatten([i \in 1..Len(path) |->
        IF path[i].node_id # id THEN <<path[i]>>
        ELSE IF path[i].is_reverse
             THEN Reverse(mapping_parts(path[i], positions, 1, 0, size, part_ids))
             ELSE mapping_parts(path[i], positions, 1, 0, size, part_ids)])

divide_paths(ps, id, positions, size, part_ids) ==
    IF has_node_mapping(ps, id)
    THEN [name \in DOMAIN ps |->
             divide_mapping_in_path(ps[name], id, positions, size, part_ids)]
    ELSE ps

\* ------------------------------------------------------------ divide_node
\* the position check: exit(1) on a position below 0 or beyond the sequence
divide_node_exits(S, ptr, positions) ==
    \E i \in 1..Len(positions) :
        positions[i] < 0 \/ positions[i] > Len(S.node[ptr].sequence)

RECURSIVE create_parts(_, _, _, _)
create_parts(S, seq, positions, last_pos) ==
    IF positions = <<>>
    THEN create_node(S, substr(seq, last_pos, Len(seq) - last_pos))
    ELSE create_parts(create_node(S, substr(seq, last_pos, Head(positions) - last_pos)),
                      seq, Tail(positions), Head(positions))

divide_edges_to_create(S, id, front, back) ==
    {<<<<IF e[1] = id THEN (IF e[2] THEN front ELSE back) ELSE e[1], e[2]>>,
       <<front, FALSE>>>> :
         e \in {edges_start(S, id)[i] : i \in 1..Len(edges_start(S, id))}}
    \cup
    {<<<<back, FALSE>>,
       <<IF e[1] = id THEN (IF e[2] THEN back ELSE front) ELSE e[1], e[2]>>>> :
         e \in {edges_end(S, id)[i] : i \in 1..Len(edges_end(S, id))}}

RECURSIVE CreateEdgesSwizzled(_, _)
CreateEdgesSwizzled(S, es) ==
    IF es = <<>> THEN S
    ELSE CreateEdgesSwizzled(
             create_edge(S, Head(es)[1][1], Head(es)[2][1], Head(es)[1][2], Head(es)[2][2]),
             Tail(es))

RECURSIVE ConnectParts(_, _, _)
ConnectParts(S, part_ids, i) ==
    IF i >= Len(part_ids) THEN S
    ELSE ConnectParts(create_edge(S, part_ids[i], part_ids[i + 1], FALSE, FALSE),
                      part_ids, i + 1)

\* the ids of the parts divide_node makes, first to last
divide_node_parts(S, ptr, positions) ==
    LET P == create_parts(S, S.node[ptr].sequence, positions, 0)
    IN [i \in 1..(Len(positions) + 1) |-> P.node[Len(S.node) + i].id]


\* divide_node(Node*, positions, parts) when the position check passes
divide_node(S, ptr, positions) ==
    LET node == S.node[ptr]
        Connect(P, part_ids) ==
            destroy_node(
                [ConnectParts(
                     CreateEdgesSwizzled(P, SortedPairs(divide_edges_to_create(
                         P, node.id, part_ids[1], part_ids[Len(part_ids)]))),
                     part_ids, 1)
                 EXCEPT !.paths = divide_paths(@, node.id, positions,
                                               Len(node.sequence), part_ids)],
                ptr)
        Parts(P) == Connect(P, [i \in 1..(Len(positions) + 1) |-> P.node[Len(S.node) + i].id])
    IN Parts(create_parts(S, node.sequence, positions, 0))

\* the Node* of the parts after divide_node: destroy_node(node) moved the last
\* part to the place of the divided node
divide_node_part_ptrs(S, ptr, positions) ==
    [i \in 1..(Len(positions) + 1) |->
        IF i = Len(positions) + 1 THEN ptr ELSE Len(S.node) + i]

\* ----------------------------------------------------------- concat_nodes
\* A NodeTraversal is <<Node*, backward>>, the Node* a position in graph_node.
trav_id(S, trav) == S.node[trav[1]].id

\* get_node(id) as a Node*, 0 where get_node throws
get_node(S, id) == IF id \in DOMAIN S.node_by_id THEN S.node_by_id[id] ELSE 0

\* nodes_prev / nodes_next, as NodeTraversals in adjacency order
nodes_prev(S, trav) ==
    LET left_nodes == IF trav[2] THEN edges_end(S, trav_id(S, trav))
                      ELSE edges_start(S, trav_id(S, trav))
    IN [i \in 1..Len(left_nodes) |->
           <<get_node(S, left_nodes[i][1]), left_nodes[i][2] # trav[2]>>]

nodes_next(S, trav) ==
    LET right_nodes == IF trav[2] THEN edges_start(S, trav_id(S, trav))
                       ELSE edges_end(S, trav_id(S, trav))
    IN [i \in 1..Len(right_nodes) |->
           <<get_node(S, right_nodes[i][1]), right_nodes[i][2] # trav[2]>>]

RECURSIVE total_length(_, _)
total_length(S, nodes) ==
    IF nodes = <<>> THEN 0
    ELSE Len(S.node[Head(nodes)[1]].sequence) + total_length(S, Tail(nodes))

RECURSIVE concat_sequence(_, _)
concat_sequence(S, nodes) ==
    IF nodes = <<>> THEN <<>>
    ELSE (IF Head(nodes)[2] THEN reverse_complement(S.node[Head(nodes)[1]].sequence)
          ELSE S.node[Head(nodes)[1]].sequence) \o concat_sequence(S, Tail(nodes))

\* the mappings of one path on a node, ordered by rank (one per rank)
RECURSIVE ByRank(_)
ByRank(ms) ==
    IF ms = {} THEN <<>>
    ELSE LET r == CHOOSE x \in {m.rank : m \in ms} : \A m \in ms : x <= m.rank
             m0 == CHOOSE m \in ms : m.rank = r
         IN <<m0>> \o ByRank({m \in ms : m.rank # r})

\* concat_mappings_for_nodes: per path, one mapping for every mapping on the
\* first node of the run, with the rank kept and the length of the whole run
concat_mappings_for_nodes(S, nodes) ==
    LET first == nodes[1]
        id == trav_id(S, first)
        names == {n \in DOMAIN S.paths : \E i \in 1..Len(S.paths[n]) : S.paths[n][i].node_id = id}
        Copies(ranked) ==
            [i \in 1..Len(ranked) |->
                [ranked[i] EXCEPT !.is_reverse = IF first[2] THEN ~@ ELSE @,
                                  !.length = total_length(S, nodes)]]
    IN [n \in names |->
           Copies(ByRank({S.paths[n][i] : i \in {j \in 1..Len(S.paths[n]) :
                                                     S.paths[n][j].node_id = id}}))]

RECURSIVE SelectSeqNotOn(_, _)
SelectSeqNotOn(path, ids) ==
    IF path = <<>> THEN <<>>
    ELSE IF Head(path).node_id \in ids THEN SelectSeqNotOn(Tail(path), ids)
    ELSE <<Head(path)>> \o SelectSeqNotOn(Tail(path), ids)

RECURSIVE AppendAll(_, _, _, _)
AppendAll(ps, name, ms, node_id) ==
    IF ms = <<>> THEN ps
    ELSE AppendAll(append_mapping(ps, name, [Head(ms) EXCEPT !.node_id = node_id]),
                   name, Tail(ms), node_id)

\* the new mappings of every path are stored on the new node
RECURSIVE StoreMappings(_, _, _, _)
StoreMappings(ps, names, new_mappings, new_id) ==
    IF names = {} THEN ps
    ELSE LET n == CHOOSE x \in names : TRUE
         IN StoreMappings(AppendAll(ps, n, new_mappings[n], new_id),
                          names \ {n}, new_mappings, new_id)

\* the traversal one left neighbour of the run is connected as: the last node
\* of the run (a duplicating self loop) and the first (a reversing self loop)
\* become the new node
concat_prev(prev, nodes, new_ptr) ==
    IF prev[1] = nodes[Len(nodes)][1]
    THEN <<new_ptr, prev[2] # nodes[Len(nodes)][2]>>
    ELSE IF prev[1] = nodes[1][1]
    THEN <<new_ptr, prev[2] # nodes[1][2]>>
    ELSE prev

\* create_edge(NodeTraversal, NodeTraversal)
create_edge_travs(S, left, right) ==
    create_edge(S, trav_id(S, left), trav_id(S, right), left[2], right[2])

RECURSIVE ConnectPrev(_, _, _, _)
ConnectPrev(S, prevs, nodes, new_ptr) ==
    IF prevs = <<>> THEN S
    ELSE ConnectPrev(create_edge_travs(S, concat_prev(Head(prevs), nodes, new_ptr),
                                       <<new_ptr, FALSE>>),
                     Tail(prevs), nodes, new_ptr)

\* the traversals the right neighbours of the run are connected as, the
\* skipped ones left out
RECURSIVE concat_nexts(_, _, _)
concat_nexts(nexts, nodes, new_ptr) ==
    IF nexts = <<>> THEN <<>>
    ELSE IF Head(nexts)[1] = nodes[Len(nodes)][1]
    THEN <<<<new_ptr, Head(nexts)[2] # nodes[Len(nodes)][2]>>>>
         \o concat_nexts(Tail(nexts), nodes, new_ptr)
    ELSE IF Head(nexts)[1] = nodes[1][1]
    THEN concat_nexts(Tail(nexts), nodes, new_ptr)
    ELSE <<Head(nexts)>> \o concat_nexts(Tail(nexts), nodes, new_ptr)

RECURSIVE ConnectNext(_, _, _)
ConnectNext(S, nexts, new_ptr) ==
    IF nexts = <<>> THEN S
    ELSE ConnectNext(create_edge_travs(S, <<new_ptr, FALSE>>, Head(nexts)),
                     Tail(nexts), new_ptr)

\* destroy_node(node) for every node of the run, in order. A Node* of the run
\* follows the node object when destroy_node moves the last object of the
\* list; a Node* met again after its object was deleted is written as the
\* negated id the object had, and freed_id is the id read from the freed
\* object, 0 for the id it had.
RECURSIVE DestroyNodes(_, _, _)
DestroyNodes(S, ptrs, freed_id) ==
    IF ptrs = <<>> THEN S
    ELSE IF Head(ptrs) < 0
    THEN DestroyNodes(destroy_deleted_node(S, IF freed_id = 0 THEN -Head(ptrs)
                                                ELSE freed_id),
                      Tail(ptrs), freed_id)
    ELSE LET moves == has_node(S, S.node[Head(ptrs)].id)
             rest == [i \in 1..(Len(ptrs) - 1) |->
                         IF moves /\ ptrs[i + 1] = Head(ptrs)
                         THEN -S.node[Head(ptrs)].id
                         ELSE IF moves /\ ptrs[i + 1] = Len(S.node) THEN Head(ptrs)
                         ELSE ptrs[i + 1]]
         IN DestroyNodes(destroy_node(S, Head(ptrs)), rest, freed_id)

\* concat_nodes up to the storing of the new mappings on the new node
concat_created(S, nodes) ==
    LET run_ids == {trav_id(S, nodes[i]) : i \in 1..Len(nodes)}
        Created(C, new_mappings) ==
            [C EXCEPT !.paths =
                StoreMappings([n \in DOMAIN C.paths |-> SelectSeqNotOn(C.paths[n], run_ids)],
                              DOMAIN new_mappings, new_mappings, C.node[Len(C.node)].id)]
    IN Created(create_node(S, concat_sequence(S, nodes)),
               concat_mappings_for_nodes(S, nodes))

\* ... up to the connection of the left neighbours
concat_connected_prev(S, nodes) ==
    LET Connect(M) == ConnectPrev(M, nodes_prev(M, nodes[1]), nodes, Len(M.node))
    IN Connect(concat_created(S, nodes))

\* concat_nodes where the run names a node more than once (a node in both
\* orientations): the later destroy_node reads the deleted node object, and
\* freed_id is the id it reads there
concat_nodes_freed(S, nodes, freed_id) ==
    LET Finish(E1) ==
            DestroyNodes(
                ConnectNext(E1, concat_nexts(nodes_next(E1, nodes[Len(nodes)]),
                                             nodes, Len(S.node) + 1),
                            Len(S.node) + 1),
                [i \in 1..Len(nodes) |-> nodes[i][1]], freed_id)
    IN Finish(concat_connected_prev(S, nodes))

\* concat_nodes: a run of distinct nodes reads no deleted object; for a node
\* named twice this is the outcome where the freed object still holds its id,
\* which is then in use no more, so that the second destroy_node does nothing
concat_nodes(S, nodes) ==
    concat_nodes_freed(S, nodes, 0)

\* concat_nodes runs to its end: no assertion fails and get_node finds every
\* neighbour
concat_nodes_asserts(S, nodes) ==
    LET last_node == nodes[Len(nodes)]
        PrevOk(prevs) ==
            \A i \in 1..Len(prevs) :
                /\ prevs[i][1] # 0
                /\ IF prevs[i][1] = last_node[1]
                   THEN ~(prevs[i][2] # last_node[2])
                   ELSE prevs[i][1] = nodes[1][1] => (prevs[i][2] # nodes[1][2])
        NextOk(nexts) ==
            \A i \in 1..Len(nexts) :
                /\ nexts[i][1] # 0
                /\ nexts[i][1] = last_node[1] => (nexts[i][2] # last_node[2])
    IN /\ nodes # <<>>
       /\ nodes[1] # last_node
       /\ total_length(S, nodes) > 0
       /\ PrevOk(nodes_prev(concat_created(S, nodes), nodes[1]))
       /\ NextOk(nodes_next(concat_connected_prev(S, nodes), last_node))

\* ------------------------------------------------------------------- edit
\* A pos_t is <<node id, is_rev, offset>>; an Edit is [from_length,
\* to_length, sequence]; a Mapping of a path to add is [node_id, is_reverse,
\* offset, edit]; a Path to add is [name, mapping].
make_pos_t(id, is_rev, offset) == <<id, is_rev, offset>>

\* operator< of pos_t: by id, then forward before reverse, then by offset
PosLess(a, b) ==
    \/ a[1] < b[1]
    \/ a[1] = b[1] /\ ~a[2] /\ b[2]
    \/ a[1] = b[1] /\ a[2] = b[2] /\ a[3] < b[3]

\* reverse(pos, node_length): the same place seen from the other strand
reverse_pos(pos, node_length) == <<pos[1], ~pos[2], node_length - pos[3]>>

\* the iteration order of a std::set of pos_t
RECURSIVE SortedPos(_)
SortedPos(ps) ==
    IF ps = {} THEN <<>>
    ELSE LET m == CHOOSE x \in ps : \A y \in ps \ {x} : PosLess(x, y)
         IN <<m>> \o SortedPos(ps \ {m})

edit_is_match(e) == e.from_length = e.to_length /\ e.sequence = <<>>

\* the bases of the node that a list of edits takes up
RECURSIVE from_length_of(_)
from_length_of(es) == IF es = <<>> THEN 0 ELSE Head(es).from_length + from_length_of(Tail(es))

\* mapping_from_length(Mapping)
mapping_from_length(m) == from_length_of(m.edit)

\* mapping_is_simple_match(Mapping): one edit, a match
mapping_is_simple_match(m) == Len(m.edit) = 1 /\ edit_is_match(m.edit[1])

edit_is_sub(e) == e.from_length = e.to_length /\ e.sequence # <<>>

edit_is_insertion(e) == e.from_length = 0 /\ e.to_length > 0 /\ e.sequence # <<>>

\* simplify: adjacent match edits of a mapping are merged
RECURSIVE simplify_edits(_)
simplify_edits(es) ==
    IF Len(es) < 2 THEN es
    ELSE IF edit_is_match(es[1]) /\ edit_is_match(es[2])
    THEN simplify_edits(<<[from_length |-> es[1].from_length + es[2].from_length,
                           to_length |-> es[1].to_length + es[2].to_length,
                           sequence |-> <<>>]>> \o SubSeq(es, 3, Len(es)))
    ELSE <<es[1]>> \o simplify_edits(Tail(es))

simplify(path) ==
    [path EXCEPT !.mapping = [i \in 1..Len(path.mapping) |->
        [path.mapping[i] EXCEPT !.edit = simplify_edits(@)]]]

\* the offset in the node where edit j of a mapping starts
RECURSIVE edit_start(_, _)
edit_start(m, j) ==
    IF j = 1 THEN m.offset ELSE edit_start(m, j - 1) + m.edit[j - 1].from_length

\* find_breakpoints: the breakpoints of one path, on the strand of its mappings
find_breakpoints(path, break_ends) ==
    UNION {UNION {
        LET m == path.mapping[i]
            e == m.edit[j]
            first == make_pos_t(m.node_id, m.is_reverse, edit_start(m, j))
            last_position == make_pos_t(m.node_id, m.is_reverse,
                                        edit_start(m, j) + e.from_length)
        IN IF m.node_id = 0 THEN {}
           ELSE (IF ~edit_is_match(e) \/ (j = 1 /\ (i # 1 \/ break_ends))
                 THEN {first} ELSE {})
                \cup
                (IF ~edit_is_match(e)
                    \/ (j = Len(m.edit) /\ (i # Len(path.mapping) \/ break_ends))
                 THEN {last_position} ELSE {})
        : j \in 1..Len(path.mapping[i].edit)} : i \in 1..Len(path.mapping)}

\* forwardize_breakpoints passes its assertions: every node exists and no
\* breakpoint is beyond the end of its node. The offset is compared with a
\* size_t, as an unsigned value: one below 0 is beyond every node
forwardize_breakpoints_asserts(S, breakpoints) ==
    \A pos \in breakpoints :
        /\ has_node(S, pos[1])
        /\ pos[3] >= 0
        /\ pos[3] <= Len(S.node[S.node_by_id[pos[1]]].sequence)

\* forwardize_breakpoints: the breakpoints on the forward strand; one at the
\* node length on the strand it is given on is left out
forwardize_breakpoints(S, breakpoints) ==
    {IF pos[2] THEN reverse_pos(pos, Len(S.node[S.node_by_id[pos[1]]].sequence)) ELSE pos :
        pos \in {p \in breakpoints : p[3] # Len(S.node[S.node_by_id[p[1]]].sequence)}}

\* ensure_breakpoints on one node: the loop over its breakpoints, in
\* ascending order. E is [S, toReturn, right_part, last_bp, current_offset];
\* toReturn maps a pos_t to a Node*, 0 for nullptr. divide_node destroys the
\* node it divides: an entry made for an earlier node that holds this Node*
\* is left dangling, written as the negated id of the node freed
RECURSIVE ensure_breakpoints_node(_, _, _)
ensure_breakpoints_node(E, bps, original_node_length) ==
    IF bps = <<>> THEN E
    ELSE LET breakpoint == Head(bps)
             Divided(divide_offset) ==
                 LET left_part == divide_node_part_ptrs(E.S, E.right_part, <<divide_offset>>)[1]
                     right_part == divide_node_part_ptrs(E.S, E.right_part, <<divide_offset>>)[2]
                     freed == 0 - E.S.node[E.right_part].id
                 IN [S |-> divide_node(E.S, E.right_part, <<divide_offset>>),
                     toReturn |-> PutKey(PutKey(Repoint(E.toReturn, E.right_part, freed),
                                                E.last_bp, left_part),
                                         reverse_pos(breakpoint, original_node_length),
                                         left_part),
                     right_part |-> right_part,
                     last_bp |-> breakpoint,
                     current_offset |-> E.current_offset + divide_offset]
         IN IF breakpoint[3] = 0 \/ breakpoint[3] = original_node_length
            THEN ensure_breakpoints_node(E, Tail(bps), original_node_length)
            ELSE ensure_breakpoints_node(Divided(breakpoint[3] - E.current_offset),
                                         Tail(bps), original_node_length)

\* ensure_breakpoints: the loop over the nodes with breakpoints, in ascending
\* order of their ids. R is [S, toReturn]
RECURSIVE ensure_breakpoints_nodes(_, _, _)
ensure_breakpoints_nodes(R, ids, breakpoints) ==
    IF ids = {} THEN R
    ELSE LET original_node_id == CHOOSE x \in ids : \A y \in ids : x <= y
             original_node_length ==
                 Len(R.S.node[get_node(R.S, original_node_id)].sequence)
             Finish(E) ==
                 [S |-> E.S,
                  toReturn |->
                      PutKey(PutKey(PutKey(PutKey(E.toReturn, E.last_bp, E.right_part),
                                 make_pos_t(original_node_id, TRUE, 0), E.right_part),
                          make_pos_t(original_node_id, TRUE, original_node_length), 0),
                          make_pos_t(original_node_id, FALSE, original_node_length), 0)]
         IN ensure_breakpoints_nodes(
                Finish(ensure_breakpoints_node(
                    [S |-> R.S, toReturn |-> R.toReturn,
                     right_part |-> get_node(R.S, original_node_id),
                     last_bp |-> make_pos_t(original_node_id, FALSE, 0),
                     current_offset |-> 0],
                    SortedPos({b \in breakpoints : b[1] = original_node_id}),
                    original_node_length)),
                ids \ {original_node_id}, breakpoints)

\* the loop of ensure_breakpoints passes the lookup of its nodes and its
\* assertions, from the state R on: when the body of a node begins the node
\* exists (get_node throws where there is none; a node made by the division
\* of an earlier one does exist), every breakpoint of it is on the forward
\* strand, and one that is neither at the start nor at the end of the node is
\* inside it
RECURSIVE ensure_breakpoints_nodes_asserts(_, _, _)
ensure_breakpoints_nodes_asserts(R, ids, breakpoints) ==
    IF ids = {} THEN TRUE
    ELSE LET original_node_id == CHOOSE x \in ids : \A y \in ids : x <= y
         IN /\ has_node(R.S, original_node_id)
            /\ \A breakpoint \in {b \in breakpoints : b[1] = original_node_id} :
                   /\ ~breakpoint[2]
                   /\ \/ breakpoint[3] = 0
                      \/ breakpoint[3] = Len(R.S.node[R.S.node_by_id[original_node_id]].sequence)
                      \/ /\ breakpoint[3] > 0
                         /\ breakpoint[3]
                                < Len(R.S.node[R.S.node_by_id[original_node_id]].sequence)
            /\ IF ids = {original_node_id} THEN TRUE
               ELSE ensure_breakpoints_nodes_asserts(
                        ensure_breakpoints_nodes(R, {original_node_id}, breakpoints),
                        ids \ {original_node_id}, breakpoints)

\* ensure_breakpoints passes the lookup of its nodes and its assertions
ensure_breakpoints_asserts(S, breakpoints) ==
    ensure_breakpoints_nodes_asserts([S |-> S, toReturn |-> EmptyMap],
                                     {b[1] : b \in breakpoints}, breakpoints)

\* a Node* of the map is that of a node that was divided again and freed
dangling_translation(node_translation) ==
    \E k \in DOMAIN node_translation : node_translation[k] < 0

\* ensure_breakpoints: [S, toReturn], the store with the nodes divided and the
\* map from the places where the new nodes start on the old ones
ensure_breakpoints(S, breakpoints) ==
    ensure_breakpoints_nodes([S |-> S, toReturn |-> EmptyMap],
                             {b[1] : b \in breakpoints}, breakpoints)

\* the find_new_node lambda passes its lookup and its assertions: for a node
\* that was not divided get_node finds it (it throws when there is no such
\* node); for a divided one there is a key after the position
\* (found != node_translation.end()) and, where that key is of the same node
\* and strand, the key before it holds a node
find_new_node_asserts(S, node_translation, old_pos) ==
    IF make_pos_t(old_pos[1], FALSE, 0) \notin DOMAIN node_translation
    THEN has_node(S, old_pos[1])
    ELSE LET later == {k \in DOMAIN node_translation : PosLess(old_pos, k)}
             found == CHOOSE k \in later : \A x \in later \ {k} : PosLess(k, x)
             before == {k \in DOMAIN node_translation : PosLess(k, found)}
         IN /\ later # {}
            /\ (found[1] = old_pos[1] /\ found[2] = old_pos[2]) =>
                   node_translation[CHOOSE k \in before :
                                        \A x \in before \ {k} : PosLess(x, k)] # 0

\* the find_new_node lambda: the node that holds a position of an old node,
\* 0 for the nullptr it returns when the key after the position is of another
\* node or strand. It has a value only where find_new_node_asserts holds
find_new_node(S, node_translation, old_pos) ==
    IF make_pos_t(old_pos[1], FALSE, 0) \notin DOMAIN node_translation
    THEN S.node_by_id[old_pos[1]]
    ELSE LET later == {k \in DOMAIN node_translation : PosLess(old_pos, k)}
             found == CHOOSE k \in later : \A x \in later \ {k} : PosLess(k, x)
             before == {k \in DOMAIN node_translation : PosLess(k, found)}
         IN IF found[1] # old_pos[1] \/ found[2] # old_pos[2] THEN 0
            ELSE node_translation[CHOOSE k \in before : \A x \in before \ {k} : PosLess(x, k)]

\* the create_new_mappings lambda passes: every position from p1 to p2 is
\* looked up without a failure and is in a node (assert(n != nullptr))
create_new_mappings_asserts(S, node_translation, p1, p2) ==
    \A k \in 1..(p2[3] - p1[3] + 1) :
        /\ find_new_node_asserts(S, node_translation, make_pos_t(p1[1], p1[2], p1[3] + k - 1))
        /\ find_new_node(S, node_translation, make_pos_t(p1[1], p1[2], p1[3] + k - 1)) # 0

\* the create_new_mappings lambda: one full match mapping for every run of
\* positions from p1 to p2 that are in the same new node
RECURSIVE group_mappings(_, _, _)
group_mappings(S, nodes, is_rev) ==
    IF nodes = <<>> THEN <<>>
    ELSE LET same == {i \in 1..Len(nodes) : \A j \in 1..i : nodes[j] = nodes[1]}
             c == Cardinality(same)
         IN <<Mapping(S.node[nodes[1]].id, is_rev, c, 0)>>
            \o group_mappings(S, SubSeq(nodes, c + 1, Len(nodes)), is_rev)

\* create_new_mappings stopping after the position p1
create_new_mappings_first(S, node_translation, p1, p2, is_rev) ==
    group_mappings(S, <<find_new_node(S, node_translation, p1)>>, is_rev)

create_new_mappings(S, node_translation, p1, p2, is_rev) ==
    group_mappings(S,
        [k \in 1..(p2[3] - p1[3] + 1) |->
            find_new_node(S, node_translation, make_pos_t(p1[1], p1[2], p1[3] + k - 1))],
        is_rev)

\* the longest run of new nodes made for one piece of new sequence
max_node_size == 1024

\* the run of new nodes for a new sequence: [S, new_nodes], the nodes of up
\* to max_node_size bases each, every one connected to the one before
RECURSIVE create_run(_, _, _)
create_run(R, fwd_seq, cursor) ==
    IF cursor >= Len(fwd_seq) THEN R
    ELSE LET Made(C) ==
                 [S |-> IF R.new_nodes = <<>> THEN C
                        ELSE create_edge(C, C.node[R.new_nodes[Len(R.new_nodes)]].id,
                                         C.node[Len(C.node)].id, FALSE, FALSE),
                  new_nodes |-> Append(R.new_nodes, Len(C.node))]
         IN create_run(Made(create_node(R.S, substr(fwd_seq, cursor, max_node_size))),
                       fwd_seq, cursor + max_node_size)

\* the edges from every dangling side to a side, in the order of the set
RECURSIVE attach_dangling(_, _, _)
attach_dangling(S, dangling, to_attach) ==
    IF dangling = {} THEN S
    ELSE LET dangler == CHOOSE x \in dangling : \A y \in dangling \ {x} : SideLess(x, y)
         IN attach_dangling(create_edge_sides(S, dangler, to_attach),
                            dangling \ {dangler}, to_attach)

\* the key a run of new nodes is remembered under: the place of the edit on
\* the forward strand and the sequence on the forward strand
novel_edit_key(S, m, e, first) ==
    <<IF m.is_reverse
      THEN make_pos_t(first[1], FALSE,
                      Len(S.node[get_node(S, first[1])].sequence)
                          - first[3] - e.from_length)
      ELSE first,
      IF m.is_reverse THEN reverse_complement(e.sequence) ELSE e.sequence>>

\* add_nodes_and_edges, one edit of a mapping. A is [S, embedded, dangling,
\* added_seqs, first]: the store, the path as embedded so far, the dangling
\* sides, the runs of new nodes made so far and edit_first_position
add_edit(A, node_translation, m, e, sizes) ==
    LET is_rev == m.is_reverse
        Novel(R, key) ==
            LET new_nodes == R.new_nodes
                front == R.S.node[new_nodes[1]].id
                back == R.S.node[new_nodes[Len(new_nodes)]].id
            IN [S |-> attach_dangling(R.S, A.dangling,
                                      NodeSide(IF is_rev THEN back ELSE front, is_rev)),
                embedded |-> A.embedded \o
                    [k \in 1..Len(new_nodes) |->
                        Mapping(R.S.node[new_nodes[k]].id, is_rev,
                                Len(R.S.node[new_nodes[k]].sequence), 0)],
                dangling |-> {NodeSide(IF is_rev THEN front ELSE back, ~is_rev)},
                added_seqs |-> PutKey(A.added_seqs, key, new_nodes),
                first |-> make_pos_t(A.first[1], A.first[2], A.first[3] + e.from_length)]
        Run(key) ==
            IF key \in DOMAIN A.added_seqs
            THEN [S |-> A.S, new_nodes |-> A.added_seqs[key]]
            ELSE LET Ordered(R) ==
                         [R EXCEPT !.new_nodes = IF is_rev THEN Reverse(@) ELSE @]
                 IN Ordered(create_run([S |-> A.S, new_nodes |-> <<>>], key[2], 0))
        Matched(left_node, right_node, last_position) ==
            [S |-> attach_dangling(A.S, A.dangling,
                                   NodeSide(A.S.node[left_node].id, is_rev)),
             embedded |-> A.embedded \o
                 create_new_mappings(A.S, node_translation, A.first, last_position, is_rev),
             dangling |-> IF right_node # 0
                          THEN {NodeSide(A.S.node[right_node].id, ~is_rev)}
                          ELSE A.dangling,
             added_seqs |-> A.added_seqs,
             first |-> make_pos_t(A.first[1], A.first[2], A.first[3] + e.from_length)]
        Last(last_position) ==
            Matched(find_new_node(A.S, node_translation, A.first),
                    find_new_node(A.S, node_translation, last_position), last_position)
    IN IF edit_is_insertion(e) \/ edit_is_sub(e)
       THEN Novel(Run(novel_edit_key(sizes, m, e, A.first)),
                  novel_edit_key(sizes, m, e, A.first))
       ELSE IF edit_is_match(e)
       THEN Last(make_pos_t(A.first[1], A.first[2],
                            A.first[3] + (IF e.from_length # 0 THEN e.from_length - 1 ELSE 0)))
       ELSE [A EXCEPT !.first = make_pos_t(A.first[1], A.first[2],
                                           A.first[3] + e.from_length)]

RECURSIVE add_edits(_, _, _, _, _)
add_edits(A, node_translation, m, j, sizes) ==
    IF j > Len(m.edit) THEN A
    ELSE add_edits(add_edit(A, node_translation, m, m.edit[j], sizes),
                   node_translation, m, j + 1, sizes)

RECURSIVE add_mappings(_, _, _, _, _)
add_mappings(A, node_translation, path, i, sizes) ==
    IF i > Len(path.mapping) THEN A
    ELSE add_mappings(
             add_edits([A EXCEPT !.first = make_pos_t(path.mapping[i].node_id,
                                                      path.mapping[i].is_reverse,
                                                      path.mapping[i].offset)],
                       node_translation, path.mapping[i], 1, sizes),
             node_translation, path, i + 1, sizes)

\* add_nodes_and_edges for one path: [S, embedded, dangling, added_seqs, first]
add_nodes_and_edges(S, path, node_translation, added_seqs, sizes) ==
    add_mappings([S |-> S, embedded |-> <<>>, dangling |-> {},
                  added_seqs |-> added_seqs, first |-> make_pos_t(0, FALSE, 0)],
                 node_translation, path, 1, sizes)

\* Paths::clear_mapping_ranks
clear_mapping_ranks(ps) ==
    [name \in DOMAIN ps |-> [i \in 1..Len(ps[name]) |-> [ps[name][i] EXCEPT !.rank = 0]]]

\* Paths::compact_ranks: the ranks of every path are 1..k in the order of the list
compact_ranks(ps) ==
    [name \in DOMAIN ps |-> [i \in 1..Len(ps[name]) |-> [ps[name][i] EXCEPT !.rank = i]]]

\* Paths::extend(path): the path of the name is made where there is none, so
\* that a path of no mapping is kept, and the mappings are appended to it
RECURSIVE paths_extend(_, _, _)
paths_extend(ps, name, ms) ==
    IF ms = <<>> THEN (IF name \in DOMAIN ps THEN ps ELSE PutKey(ps, name, <<>>))
    ELSE paths_extend(append_mapping(ps, name, Head(ms)), name, Tail(ms))

\* the names of the paths in the order paths.for_each visits them
PathOrder == <<"p", "x">>

\* the loop of edit over the paths to add: E is [S, added_seqs]
RECURSIVE edit_add_paths(_, _, _, _, _)
edit_add_paths(E, simplified_paths, i, node_translation, sizes) ==
    IF i > Len(simplified_paths) THEN E
    ELSE LET Saved(A) ==
                 [S |-> [A.S EXCEPT !.paths = paths_extend(@, simplified_paths[i].name,
                                                           A.embedded)],
                  added_seqs |-> A.added_seqs]
         IN edit_add_paths(
                Saved(add_nodes_and_edges(E.S, simplified_paths[i], node_translation,
                                          E.added_seqs, sizes)),
                simplified_paths, i + 1, node_translation, sizes)

\* the check of edit that every two consecutive mappings of a path have
\* their edge, which is created where it is missing
RECURSIVE force_path_edges(_, _, _)
force_path_edges(S, path, i) ==
    IF i >= Len(path) THEN S
    ELSE LET s1 == NodeSide(path[i].node_id, ~path[i].is_reverse)
             s2 == NodeSide(path[i + 1].node_id, path[i + 1].is_reverse)
         IN force_path_edges(IF get_edge(S, s1, s2) = 0 THEN create_edge_sides(S, s1, s2)
                             ELSE S,
                             path, i + 1)

RECURSIVE force_edges(_, _)
force_edges(S, names) ==
    IF names = <<>> THEN S
    ELSE force_edges(IF Head(names) \in DOMAIN S.paths
                     THEN force_path_edges(S, S.paths[Head(names)], 1)
                     ELSE S,
                     Tail(names))

\* edge_handle(left, right): the edge between the side a handle is left by
\* and the side the next is entered by, the same from either end
edge_handle(left, right) ==
    {NodeSide(get_id(left), ~get_is_reverse(left)),
     NodeSide(get_id(right), get_is_reverse(right))}

\* head_nodes: the forward handles that no edge enters
head_nodes(S) ==
    {get_handle(S.node[i].id, FALSE) : i \in {p \in 1..Len(S.node) :
        follow_edges(S, get_handle(S.node[p].id, FALSE), TRUE) = <<>>}}

\* the handle of the lowest node id of a set of handles
first_handle(handles) ==
    CHOOSE h \in handles : \A g \in handles : get_id(h) <= get_id(g)

\* the visit of the handles that follow n, from the i-th on, in the order
\* follow_edges gives them: the edge is masked; a node not visited yet all of
\* whose entering edges are masked goes into s as it is entered, one with
\* edges left is kept in seeds. T is [masked_edges, s, seeds, unvisited]
RECURSIVE mask_edges(_, _, _, _)
mask_edges(S, T, n, i) ==
    IF i > Len(follow_edges(S, n, FALSE)) THEN T
    ELSE LET next_node == follow_edges(S, n, FALSE)[i]
             edge == edge_handle(n, next_node)
             prevs == follow_edges(S, next_node, TRUE)
             unmasked_incoming_edge ==
                 \E k \in 1..Len(prevs) :
                     edge_handle(prevs[k], next_node) \notin T.masked_edges \cup {edge}
         IN mask_edges(S,
                IF edge \in T.masked_edges THEN T
                ELSE IF get_id(next_node) \notin T.unvisited
                THEN [T EXCEPT !.masked_edges = @ \cup {edge}]
                ELSE IF ~unmasked_incoming_edge
                THEN [T EXCEPT !.masked_edges = @ \cup {edge},
                               !.s = @ \cup {next_node},
                               !.unvisited = @ \ {get_id(next_node)}]
                ELSE [T EXCEPT !.masked_edges = @ \cup {edge},
                               !.seeds = PutKey(@, get_id(next_node), next_node)],
                n, i + 1)

\* Kahn's algorithm on the handles. s holds the handles all of whose entering
\* edges are masked; the one of the lowest id is taken, put at the end of the
\* order, and the edges that leave it are masked. When s is empty and nodes
\* are left (a cycle), the algorithm goes on from the seed of the lowest id
\* that is not visited yet, or without one from the unvisited node of the
\* lowest id, forward; the seeds looked at are dropped.
RECURSIVE topological_order_from(_, _)
topological_order_from(S, T) ==
    IF T.s = {}
    THEN IF T.unvisited = {} THEN <<>>
         ELSE LET live == {id \in DOMAIN T.seeds : id \in T.unvisited}
                  seed == CHOOSE id \in live : \A x \in live : id <= x
                  any == CHOOSE id \in T.unvisited : \A x \in T.unvisited : id <= x
              IN IF live # {}
                 THEN topological_order_from(S,
                          [T EXCEPT !.s = {T.seeds[seed]},
                                    !.unvisited = @ \ {seed},
                                    !.seeds = [id \in {x \in DOMAIN T.seeds : x > seed}
                                                  |-> T.seeds[id]]])
                 ELSE topological_order_from(S,
                          [T EXCEPT !.s = {get_handle(any, FALSE)},
                                    !.unvisited = @ \ {any},
                                    !.seeds = EmptyMap])
    ELSE LET n == first_handle(T.s)
         IN <<n>> \o topological_order_from(S, mask_edges(S, [T EXCEPT !.s = @ \ {n}], n, 1))

\* topological_order: the handles of the graph in the order of Kahn's
\* algorithm, which begins with the heads
topological_order(S) ==
    topological_order_from(S,
        [masked_edges |-> {}, s |-> head_nodes(S), seeds |-> EmptyMap,
         unvisited |-> {S.node[i].id : i \in 1..Len(S.node)}
                           \ {get_id(h) : h \in head_nodes(S)}])

\* the node objects of the list put into the order of the handles, the Node*
\* following their objects; objects of one id stay in the order they are in
apply_ordering(S, order) ==
    LET index == [p \in 1..Len(S.node) |->
                     CHOOSE i \in 1..Len(order) : get_id(order[i]) = S.node[p].id]
        place == [p \in 1..Len(S.node) |->
                     1 + Cardinality({q \in 1..Len(S.node) :
                             \/ index[q] < index[p]
                             \/ index[q] = index[p] /\ q < p})]
    IN [S EXCEPT !.node = <<>> \o [i \in 1..Len(S.node) |->
                                      S.node[CHOOSE p \in 1..Len(S.node) : place[p] = i]],
                 !.node_by_id = [id \in DOMAIN S.node_by_id |->
                                    IF S.node_by_id[id] \in 1..Len(S.node)
                                    THEN place[S.node_by_id[id]]
                                    ELSE S.node_by_id[id]]]

\* algorithms::sort(graph): a graph of more than one node is put into a
\* topological order
sort(S) ==
    IF Len(S.node) <= 1 THEN S ELSE apply_ordering(S, topological_order(S))

\* edit(paths_to_add, save_paths = true) up to ensure_breakpoints: [S,
\* toReturn], the graph with its nodes divided and node_translation
edit_broken(S, paths_to_add) ==
    LET simplified_paths == [i \in 1..Len(paths_to_add) |-> simplify(paths_to_add[i])]
    IN ensure_breakpoints([S EXCEPT !.paths = clear_mapping_ranks(@)],
           forwardize_breakpoints(S,
               UNION {find_breakpoints(simplified_paths[i], TRUE) :
                          i \in 1..Len(simplified_paths)}))

\* edit from ensure_breakpoints on, R being what it returned, up to the check
\* of the path edges
edit_walked(S, paths_to_add, R) ==
    LET simplified_paths == [i \in 1..Len(paths_to_add) |-> simplify(paths_to_add[i])]
        Checked(E) == force_edges([E.S EXCEPT !.paths = compact_ranks(@)], PathOrder)
    IN Checked(edit_add_paths([S |-> R.S, added_seqs |-> EmptyMap],
                              simplified_paths, 1, R.toReturn, S))

\* edit(paths_to_add, save_paths = true) up to the check of the path edges
edit_checked(S, paths_to_add) ==
    edit_walked(S, paths_to_add, edit_broken(S, paths_to_add))

\* edit(paths_to_add, save_paths = true): the store afterwards
edit(S, paths_to_add) ==
    sort(edit_checked(S, paths_to_add))

\* add_nodes_and_edges passes on a path: the positions of every match are
\* found in the divided graph. The nodes and edges the walk adds take no old
\* node away, so that the lookups are those of the store it begins with
add_nodes_and_edges_asserts(S, path, node_translation) ==
    \A i \in 1..Len(path.mapping) : \A j \in 1..Len(path.mapping[i].edit) :
        LET m == path.mapping[i]
            e == m.edit[j]
            edit_first_position ==
                make_pos_t(m.node_id, m.is_reverse,
                           m.offset + from_length_of(SubSeq(m.edit, 1, j - 1)))
            edit_last_position ==
                make_pos_t(m.node_id, m.is_reverse,
                           edit_first_position[3]
                               + (IF e.from_length # 0 THEN e.from_length - 1 ELSE 0))
        IN (edit_is_match(e) /\ ~edit_is_insertion(e) /\ ~edit_is_sub(e)) =>
               create_new_mappings_asserts(S, node_translation, edit_first_position,
                                           edit_last_position)

\* edit passes the assertions of forwardize_breakpoints and, on the
\* breakpoints that come out of it, those of ensure_breakpoints
edit_asserts(S, paths_to_add) ==
    LET breakpoints == UNION {find_breakpoints(simplify(paths_to_add[i]), TRUE) :
                                  i \in 1..Len(paths_to_add)}
    IN /\ forwardize_breakpoints_asserts(S, breakpoints)
       /\ ensure_breakpoints_asserts(S, forwardize_breakpoints(S, breakpoints))

\* edit passes the assertions of add_nodes_and_edges on the divided graph R
edit_walk_asserts(paths_to_add, R) ==
    \A i \in 1..Len(paths_to_add) :
        add_nodes_and_edges_asserts(R.S, simplify(paths_to_add[i]), R.toReturn)

\* edit_fast(path, dangling): [S, dangling, translations]. The breakpoints
\* are those of the path as it is given and the walk is on the path as it is
\* given; the simplified path is made and not used. No path is saved, no rank
\* is cleared or compacted and the graph is not sorted. The sizes are asked
\* for the nodes with a breakpoint only, and the walk asks the graph for the
\* others, which are of the size they had. break_ends is the default of
\* find_breakpoints, which the declaration gives. A translation is made
\* for every key of node_translation that holds a node, in the order of the keys
edit_fast(S, path, dangling, break_ends) ==
    LET Translated(R, A) ==
            LET kept == SortedPos({k \in DOMAIN R.toReturn : R.toReturn[k] # 0})
            IN [i \in 1..Len(kept) |->
                   [from |-> kept[i],
                    to |-> make_pos_t(A.S.node[R.toReturn[kept[i]]].id, kept[i][2], 0),
                    length |-> Len(A.S.node[R.toReturn[kept[i]]].sequence)]]
        Result(R, A) == [S |-> A.S, dangling |-> A.dangling, translations |-> Translated(R, A)]
        Walk(R) ==
            Result(R, add_mappings([S |-> R.S, embedded |-> <<>>, dangling |-> dangling,
                                    added_seqs |-> EmptyMap,
                                    first |-> make_pos_t(0, FALSE, 0)],
                                   R.toReturn, path, 1, S))
    IN Walk(ensure_breakpoints(S, forwardize_breakpoints(S, find_breakpoints(path, break_ends))))

\* edit_fast passes the assertions of forwardize_breakpoints, the lookup of
\* the nodes with a breakpoint (get_node throws where there is none), the
\* assertions of ensure_breakpoints and those of add_nodes_and_edges
edit_fast_asserts(S, path, break_ends) ==
    LET breakpoints == find_breakpoints(path, break_ends)
    IN /\ forwardize_breakpoints_asserts(S, breakpoints)
       /\ \A pos \in forwardize_breakpoints(S, breakpoints) : has_node(S, pos[1])
       /\ ensure_breakpoints_asserts(S, forwardize_breakpoints(S, breakpoints))
       /\ \A R \in {ensure_breakpoints(S, forwardize_breakpoints(S, breakpoints))} :
              add_nodes_and_edges_asserts(R.S, path, R.toReturn)

\* the walk of edit_fast reads no freed node: what it does with the Node* of
\* a node that was divided again is undefined and is not followed
edit_fast_defined(S, path, break_ends) ==
    ~dangling_translation(
        ensure_breakpoints(S, forwardize_breakpoints(S, find_breakpoints(path, break_ends))).toReturn)

\* ------------------------------------------------------------- acyclicity
\* start_degree / end_degree of a node
start_degree(S, id) == Len(edges_start(S, id))

end_degree(S, id) == Len(edges_end(S, id))

\* is_directed_acyclic, the first loops: the degrees of every node by id and
\* the stack of the traversals that nothing enters
RECURSIVE initial_stack(_, _, _)
initial_stack(S, degrees, i) ==
    IF i > Len(S.node) THEN <<>>
    ELSE (IF degrees[S.node[i].id][1] = 0 THEN <<<<i, FALSE>>>> ELSE <<>>)
         \o (IF degrees[S.node[i].id][2] = 0 THEN <<<<i, TRUE>>>> ELSE <<>>)
         \o initial_stack(S, degrees, i + 1)

\* is_directed_acyclic, the loop over nexts: K is [degrees, stack]
RECURSIVE eliminate_nexts(_, _, _)
eliminate_nexts(S, K, nexts) ==
    IF nexts = <<>> THEN K
    ELSE LET next == Head(nexts)
             nid == trav_id(S, next)
             in_degree == IF next[2] THEN K.degrees[nid][2] - 1 ELSE K.degrees[nid][1] - 1
         IN IF nid \notin DOMAIN K.degrees THEN eliminate_nexts(S, K, Tail(nexts))
            ELSE eliminate_nexts(S,
                     [degrees |-> [K.degrees EXCEPT ![nid] =
                                      IF next[2] THEN <<@[1], in_degree>>
                                      ELSE <<in_degree, @[2]>>],
                      stack |-> IF in_degree = 0 THEN Append(K.stack, next) ELSE K.stack],
                     Tail(nexts))

\* is_directed_acyclic, the elimination loop: the ids that keep an entry in
\* degrees when the stack is empty
RECURSIVE eliminate(_, _)
eliminate(S, K) ==
    IF K.stack = <<>> THEN DOMAIN K.degrees
    ELSE LET here == K.stack[Len(K.stack)]
             popped == SubSeq(K.stack, 1, Len(K.stack) - 1)
         IN IF trav_id(S, here) \notin DOMAIN K.degrees
            THEN eliminate(S, [K EXCEPT !.stack = popped])
            ELSE eliminate(S, eliminate_nexts(S,
                     [degrees |-> RemoveKey(K.degrees, trav_id(S, here)), stack |-> popped],
                     nodes_next(S, here)))

\* the ids is_directed_acyclic is left with
remaining_degrees(S) ==
    LET degrees == [id \in {S.node[i].id : i \in 1..Len(S.node)} |->
                       <<start_degree(S, id), end_degree(S, id)>>]
    IN eliminate(S, [degrees |-> degrees, stack |-> initial_stack(S, degrees, 1)])

is_directed_acyclic(S) == remaining_degrees(S) = {}

\* -------------------------------------------------------------------- dfs
\* edges_of(node): the edges on the start, then the edges on the end that
\* were not met on the start
edges_of(S, id) ==
    LET on_start == [i \in 1..Len(edges_start(S, id)) |->
                        S.edge_by_sides[pair_from_start_edge(id, edges_start(S, id)[i])]]
        on_end == [i \in 1..Len(edges_end(S, id)) |->
                      S.edge_by_sides[pair_from_end_edge(id, edges_end(S, id)[i])]]
    IN on_start \o SelectSeq(on_end,
           LAMBDA e : ~(S.edge[e].from = S.edge[e].to
                        /\ S.edge[e].from_start = S.edge[e].to_end))

is_self_looping(S, id) ==
    \E i \in 1..Len(edges_of(S, id)) :
        /\ S.edge[edges_of(S, id)[i]].from = id
        /\ S.edge[edges_of(S, id)[i]].to = id

\* get_edge(left, right) of two NodeTraversals
get_edge_travs(S, left, right) ==
    get_edge(S, NodeSide(trav_id(S, left), ~left[2]), NodeSide(trav_id(S, right), right[2]))

\* NodeTraversal::operator< : by the address of the node, then forward first;
\* addr gives every Node* the rank of its address
TravLess(addr, a, b) == addr[a[1]] < addr[b[1]] \/ (a[1] = b[1] /\ ~a[2] /\ b[2])

\* the iteration order of a std::set of NodeTraversals
RECURSIVE SortedTravs(_, _)
SortedTravs(addr, ts) ==
    IF ts = {} THEN <<>>
    ELSE LET m == CHOOSE x \in ts : \A y \in ts \ {x} : TravLess(addr, x, y)
         IN <<m>> \o SortedTravs(addr, ts \ {m})

\* travs_from(trav): the set of the traversals of nodes_next, in its order
travs_from(S, addr, trav) ==
    SortedTravs(addr, {nodes_next(S, trav)[i] : i \in 1..Len(nodes_next(S, trav))})

\* the edges dfs collects for a traversal it discovers
dfs_edges_of(S, addr, trav) ==
    [i \in 1..Len(travs_from(S, addr, trav)) |->
        get_edge_travs(S, trav, travs_from(S, addr, trav)[i])]

\* dfs_target keeping the orientation of the traversal over every edge
dfs_target_same_strand(S, trav, e) ==
    LET edge == S.edge[e]
        id == trav_id(S, trav)
        node == IF edge.from = id /\ edge.to # id THEN get_node(S, edge.to)
                ELSE IF edge.to = id /\ edge.from # id THEN get_node(S, edge.from)
                ELSE trav[1]
    IN <<node, trav[2]>>

\* the traversal dfs gets to following an edge from a traversal
dfs_target(S, trav, e) ==
    LET edge == S.edge[e]
        id == trav_id(S, trav)
        node == IF edge.from = id /\ edge.to # id THEN get_node(S, edge.to)
                ELSE IF edge.to = id /\ edge.from # id THEN get_node(S, edge.from)
                ELSE trav[1]
    IN <<node, trav[2] # (edge.from_start # edge.to_end)>>

\* the callbacks of the callers of dfs, on the state C of the caller.
\* is_acyclic: C is [seen, acyclic].
\* strongly_connected_components: C is [index, roots, discover_idx, stack,
\* on_stack, components].
RECURSIVE scc_adopt_roots(_, _, _)
scc_adopt_roots(C, trav, nexts) ==
    IF nexts = <<>> THEN C
    ELSE LET next == Head(nexts)
             node_root == C.roots[trav]
             next_root == C.roots[next]
         IN scc_adopt_roots(
                IF next \in C.on_stack
                THEN [C EXCEPT !.roots = (trav :> (IF C.discover_idx[node_root]
                                                          < C.discover_idx[next_root]
                                                   THEN node_root ELSE next_root)) @@ @]
                ELSE C,
                trav, Tail(nexts))

\* the do-while loop that pops a component off the stack: [stack, component]
RECURSIVE scc_pop(_, _, _)
scc_pop(S, P, trav) ==
    LET other == P.stack[Len(P.stack)]
        popped == [stack |-> SubSeq(P.stack, 1, Len(P.stack) - 1),
                   component |-> P.component \cup {trav_id(S, other)},
                   on_stack |-> P.on_stack \ {other}]
    IN IF other = trav THEN popped ELSE scc_pop(S, popped, trav)

node_begin_fn(client, S, addr, C, trav) ==
    IF client = "is_acyclic"
    THEN LET acyclic == /\ C.acyclic
                        /\ ~is_self_looping(S, trav_id(S, trav))
                        /\ \A i \in 1..Len(travs_from(S, addr, trav)) :
                              travs_from(S, addr, trav)[i] \notin C.seen
         IN [seen |-> IF acyclic THEN C.seen \cup {trav} ELSE C.seen,
             acyclic |-> acyclic]
    ELSE [C EXCEPT !.roots = (trav :> trav) @@ @,
                   !.discover_idx = (trav :> C.index) @@ @,
                   !.index = @ + 1,
                   !.stack = Append(@, trav),
                   !.on_stack = @ \cup {trav}]

node_end_fn(client, S, addr, C, trav) ==
    IF client = "is_acyclic"
    THEN [C EXCEPT !.seen = @ \ {trav}]
    ELSE LET Pop(A) ==
                 IF A.roots[trav] = trav
                 THEN LET P == scc_pop(S, [stack |-> A.stack, component |-> {},
                                           on_stack |-> A.on_stack], trav)
                      IN [A EXCEPT !.stack = P.stack,
                                   !.on_stack = P.on_stack,
                                   !.components = @ \cup {P.component}]
                 ELSE A
         IN Pop(scc_adopt_roots(C, trav, travs_from(S, addr, trav)))

break_fn(client, C) == IF client = "is_acyclic" THEN ~C.acyclic ELSE FALSE

\* the search state of a traversal: PRE where there is no entry
search_state(D, trav) == IF trav \in DOMAIN D.state THEN D.state[trav] ELSE "PRE"

\* dfs_single_source, the loops over the frames and over the edges of the
\* traversal in focus. D is [state, C], a frame is [trav, es, begin]. The
\* frame is read through the reference taken before pop_back, which still
\* holds what was popped.
RECURSIVE dfs_walk(_, _, _, _, _, _, _, _)
dfs_walk(client, S, addr, D, todo, trav, es, begin) ==
    IF begin > Len(es)
    THEN LET Ended == [state |-> (trav :> "POST") @@ D.state,
                       C |-> node_end_fn(client, S, addr, D.C, trav)]
         IN IF todo = <<>> THEN Ended
            ELSE dfs_walk(client, S, addr, Ended, SubSeq(todo, 1, Len(todo) - 1),
                          todo[Len(todo)].trav, todo[Len(todo)].es, todo[Len(todo)].begin)
    ELSE LET target == dfs_target(S, trav, es[begin]) IN
         IF search_state(D, target) = "PRE"
         THEN dfs_walk(client, S, addr,
                       [state |-> (target :> "CURR") @@ D.state,
                        C |-> node_begin_fn(client, S, addr, D.C, target)],
                       Append(todo, [trav |-> trav, es |-> es, begin |-> begin + 1]),
                       target, dfs_edges_of(S, addr, target), 1)
         ELSE dfs_walk(client, S, addr, D, todo, trav, es, begin + 1)

dfs_single_source(client, S, addr, D, root) ==
    IF search_state(D, root) = "PRE"
    THEN LET Begun == [state |-> (root :> "CURR") @@ D.state,
                       C |-> node_begin_fn(client, S, addr, D.C, root)]
         IN IF break_fn(client, Begun.C) THEN Begun
            ELSE dfs_walk(client, S, addr, Begun, <<>>, root, dfs_edges_of(S, addr, root), 1)
    ELSE D

\* dfs from every node of graph.node in both orientations, forward first
RECURSIVE dfs_roots(_, _, _, _, _)
dfs_roots(client, S, addr, D, k) ==
    IF k > 2 * Len(S.node) THEN D
    ELSE dfs_roots(client, S, addr,
                   dfs_single_source(client, S, addr, D, <<(k + 1) \div 2, k % 2 = 0>>),
                   k + 1)

dfs(client, S, addr, C) ==
    dfs_roots(client, S, addr, [state |-> EmptyMap, C |-> C], 1).C

is_acyclic(S, addr) ==
    dfs("is_acyclic", S, addr, [seen |-> {}, acyclic |-> TRUE]).acyclic

strongly_connected_components(S, addr) ==
    dfs("strongly_connected_components", S, addr,
        [index |-> 0, roots |-> EmptyMap, discover_idx |-> EmptyMap, stack |-> <<>>,
         on_stack |-> {}, components |-> {}]).components

multinode_strongly_connected_components(S, addr) ==
    {c \in strongly_connected_components(S, addr) : Cardinality(c) > 1}

\* ----------------------------------------------------------------- dagify
\* the iteration order of a std::set of ids
RECURSIVE SortedIds(_)
SortedIds(ids) ==
    IF ids = {} THEN <<>>
    ELSE LET m == CHOOSE x \in ids : \A y \in ids : x <= y
         IN <<m>> \o SortedIds(ids \ {m})

\* operator< of std::set<id_t>: lexicographic over the ids in order
RECURSIVE SeqLess(_, _)
SeqLess(a, b) ==
    IF b = <<>> THEN FALSE
    ELSE IF a = <<>> THEN TRUE
    ELSE IF Head(a) # Head(b) THEN Head(a) < Head(b)
    ELSE SeqLess(Tail(a), Tail(b))

\* the iteration order of a std::set of sets of ids
RECURSIVE SortedSets(_)
SortedSets(cs) ==
    IF cs = {} THEN <<>>
    ELSE LET m == CHOOSE x \in cs :
                      \A y \in cs \ {x} : SeqLess(SortedIds(x), SortedIds(y))
         IN <<m>> \o SortedSets(cs \ {m})

\* add_node(node): the node is copied in unless its id is in use
add_node(S, node) ==
    IF has_node(S, node.id) THEN S ELSE create_node_id(S, node.sequence, node.id)

\* add_edge(edge): the edge is copied in unless its sides are joined
add_edge(S, edge) ==
    IF has_edge(S, edge) THEN S
    ELSE set_edge([S EXCEPT !.edge = Append(@, edge)], edge, Len(S.edge) + 1)

\* flip_doubly_reversed_edges, from edge i on
RECURSIVE flip_doubly_reversed_edges_from(_, _)
flip_doubly_reversed_edges_from(S, i) ==
    IF i > Len(S.edge) THEN S
    ELSE LET e == S.edge[i]
             flipped == Edge(e.to, e.from, FALSE, FALSE)
         IN flip_doubly_reversed_edges_from(
                IF e.from_start /\ e.to_end
                THEN index_edge_by_node_sides(
                         [unindex_edge_by_node_sides(S, e) EXCEPT !.edge[i] = flipped],
                         flipped, i)
                ELSE S,
                i + 1)

flip_doubly_reversed_edges(S) == flip_doubly_reversed_edges_from(S, 1)

\* the store a VG starts as
EmptyStore ==
    [node |-> <<>>, edge |-> <<>>, node_by_id |-> EmptyMap, edge_by_sides |-> EmptyMap,
     edges_on_start |-> EmptyMap, edges_on_end |-> EmptyMap, paths |-> EmptyMap,
     current_id |-> 1]

\* dagify, the nodes that are no component of their own and the edges among
\* them copied into the dag
RECURSIVE dagify_weak_nodes(_, _, _)
dagify_weak_nodes(S, dag, ids) ==
    IF ids = <<>> THEN dag
    ELSE dagify_weak_nodes(S, add_node(dag, S.node[get_node(S, Head(ids))]), Tail(ids))

RECURSIVE dagify_weak_edges_of(_, _, _, _)
dagify_weak_edges_of(S, dag, weak, es) ==
    IF es = <<>> THEN dag
    ELSE dagify_weak_edges_of(S,
             IF S.edge[Head(es)].from \in weak /\ S.edge[Head(es)].to \in weak
             THEN add_edge(dag, S.edge[Head(es)]) ELSE dag,
             weak, Tail(es))

RECURSIVE dagify_weak_edges(_, _, _, _)
dagify_weak_edges(S, dag, weak, ids) ==
    IF ids = <<>> THEN dag
    ELSE dagify_weak_edges(S, dagify_weak_edges_of(S, dag, weak, edges_of(S, Head(ids))),
                           weak, Tail(ids))

\* dagify, the nodes of the other components created in the dag under their ids
RECURSIVE dagify_base_nodes(_, _, _)
dagify_base_nodes(S, dag, ids) ==
    IF ids = <<>> THEN dag
    ELSE dagify_base_nodes(S,
             create_node_id(dag, S.node[get_node(S, Head(ids))].sequence, Head(ids)),
             Tail(ids))

\* the value of a std::map entry that operator[] makes where there is none
map_at(m, k) == IF k \in DOMAIN m THEN m[k] ELSE 0

\* dagify, one copy of a component: the new nodes. W is [dag, curr,
\* component_length, min_return_length, seen, curr_min_min_return_length,
\* node_translation], the maps being by the ids of the nodes of the dag.
RECURSIVE dagify_copy_nodes(_, _, _)
dagify_copy_nodes(S, W, ids) ==
    IF ids = <<>> THEN W
    ELSE LET Made(D) ==
                 [W EXCEPT !.dag = D,
                           !.component_length =
                               @ + Len(S.node[get_node(S, Head(ids))].sequence),
                           !.curr = (Head(ids) :> D.node[Len(D.node)].id) @@ @,
                           !.node_translation =
                               PutKey(@, D.node[Len(D.node)].id, <<Head(ids), FALSE>>)]
         IN dagify_copy_nodes(S,
                Made(create_node(W.dag, S.node[get_node(S, Head(ids))].sequence)),
                Tail(ids))

\* the update of the minimum return lengths for an edge from the last copy
dagify_return_length(W, last_copy, id, from) ==
    LET old == map_at(W.min_return_length, W.curr[id])
        inmm == Len(W.dag.node[get_node(W.dag, W.curr[id])].sequence)
                    + map_at(W.min_return_length, last_copy[from])
        mm == IF old # 0 THEN (IF old < inmm THEN old ELSE inmm) ELSE inmm
    IN [W EXCEPT !.min_return_length = (W.curr[id] :> mm) @@ @,
                 !.curr_min_min_return_length =
                     IF @ # 0 THEN (IF mm < @ THEN mm ELSE @) ELSE mm]

\* dagify, one copy of a component: one original edge of one of its nodes
dagify_copy_edge(W, component, last_copy, id, e) ==
    IF e.from = id /\ e.to # id
    THEN IF e.to \notin component
         THEN [W EXCEPT !.dag = add_edge(@, [e EXCEPT !.from = W.curr[id]])]
         ELSE IF e.to \notin W.seen
         THEN [W EXCEPT !.dag = add_edge(@, [e EXCEPT !.from = W.curr[id],
                                                      !.to = W.curr[e.to]]),
                        !.seen = @ \cup {e.to}]
         ELSE W
    ELSE IF e.to = id /\ e.from # id
    THEN LET Linked ==
                 IF e.from \notin component
                 THEN [W EXCEPT !.dag = add_edge(@, [e EXCEPT !.to = W.curr[id]])]
                 ELSE IF e.from \notin W.seen
                 THEN [W EXCEPT !.dag = add_edge(@, [e EXCEPT !.to = W.curr[id],
                                                              !.from = W.curr[e.from]]),
                                !.seen = @ \cup {e.from}]
                 ELSE W
             Back(L) ==
                 IF last_copy # EmptyMap /\ e.from \in component
                 THEN dagify_return_length(
                          [L EXCEPT !.dag = add_edge(@, [e EXCEPT !.to = L.curr[id],
                                                                  !.from = last_copy[e.from]])],
                          last_copy, id, e.from)
                 ELSE L
         IN Back(Linked)
    ELSE IF e.to = id /\ e.from = id
    THEN IF last_copy # EmptyMap
         THEN dagify_return_length(
                  [W EXCEPT !.dag = add_edge(@, [e EXCEPT !.to = W.curr[id],
                                                          !.from = last_copy[id]])],
                  last_copy, id, e.from)
         ELSE W
    ELSE W

RECURSIVE dagify_copy_edges_of(_, _, _, _, _, _)
dagify_copy_edges_of(S, W, component, last_copy, id, es) ==
    IF es = <<>> THEN W
    ELSE dagify_copy_edges_of(S,
             dagify_copy_edge(W, component, last_copy, id, S.edge[Head(es)]),
             component, last_copy, id, Tail(es))

RECURSIVE dagify_copy_edges(_, _, _, _, _)
dagify_copy_edges(S, W, component, last_copy, ids) ==
    IF ids = <<>> THEN W
    ELSE dagify_copy_edges(S,
             dagify_copy_edges_of(S, [W EXCEPT !.seen = @ \cup {Head(ids)}],
                                  component, last_copy, Head(ids), edges_of(S, Head(ids))),
             component, last_copy, Tail(ids))

\* dagify, the copies of one component from step i on: the dag and the
\* translation
RECURSIVE dagify_steps(_, _, _, _, _, _, _, _, _)
dagify_steps(S, W, component, base, last_copy, i, expand_scc_steps, target_min_walk_length, component_length_max) ==
    IF i >= expand_scc_steps + 1 THEN W
    ELSE LET Copied(C) ==
                 IF target_min_walk_length # 0
                    /\ C.curr_min_min_return_length >= target_min_walk_length
                 THEN C
                 ELSE IF component_length_max # 0
                         /\ C.component_length >= component_length_max
                 THEN C
                 ELSE dagify_steps(S, C, component, base, C.curr, i + 1, expand_scc_steps,
                                   target_min_walk_length, component_length_max)
             Wired(N) == Copied(dagify_copy_edges(S, N, component, last_copy,
                                                  SortedIds(component)))
         IN Wired(dagify_copy_nodes(S,
                [W EXCEPT !.curr = base, !.seen = {}, !.curr_min_min_return_length = 0],
                SortedIds(component)))

\* dagify, the loop over the components that are copied
RECURSIVE dagify_components(_, _, _, _, _, _)
dagify_components(S, D, components, expand_scc_steps, target_min_walk_length, component_length_max) ==
    IF components = <<>> THEN D
    ELSE LET component == Head(components)
             base == [id \in component |-> id]
             lengths == [id \in component |->
                            Len(D.dag.node[get_node(D.dag, id)].sequence)]
             RECURSIVE Sum(_)
             Sum(ids) == IF ids = {} THEN 0
                         ELSE LET x == CHOOSE y \in ids : TRUE
                              IN lengths[x] + Sum(ids \ {x})
         IN dagify_components(S,
                dagify_steps(S,
                    [dag |-> D.dag, curr |-> base, component_length |-> Sum(component),
                     min_return_length |-> lengths, seen |-> {},
                     curr_min_min_return_length |-> 0,
                     node_translation |-> D.node_translation],
                    component, base, base, 0, expand_scc_steps,
                    target_min_walk_length, component_length_max),
                Tail(components), expand_scc_steps,
                target_min_walk_length, component_length_max)

\* dagify before the last flip of the edges: the dag and the translation
dagify_unrolled(S, addr, expand_scc_steps, target_min_walk_length, component_length_max) ==
    LET strong_components == SortedSets(strongly_connected_components(S, addr))
        IsWeak(c) == Cardinality(c) = 1 /\ ~is_self_looping(S, CHOOSE id \in c : TRUE)
        weak_components == UNION {c \in strongly_connected_components(S, addr) : IsWeak(c)}
        looping == SelectSeq(strong_components, LAMBDA c : ~IsWeak(c))
        RECURSIVE Ids(_)
        Ids(cs) == IF cs = <<>> THEN <<>> ELSE SortedIds(Head(cs)) \o Ids(Tail(cs))
        Weak(D) == dagify_weak_edges(S, D, weak_components, SortedIds(weak_components))
        Based(D) == dagify_base_nodes(S, D, Ids(looping))
        Unrolled(D) == dagify_components(S,
                           [dag |-> D,
                            node_translation |-> [id \in weak_components |-> <<id, FALSE>>]],
                           looping, expand_scc_steps,
                           target_min_walk_length, component_length_max)
    IN Unrolled(Based(Weak(dagify_weak_nodes(S, EmptyStore,
           Ids(SelectSeq(strong_components, IsWeak))))))

\* dagify: the dag
dagify(S, addr, expand_scc_steps, target_min_walk_length, component_length_max) ==
    flip_doubly_reversed_edges(
        dagify_unrolled(S, addr, expand_scc_steps, target_min_walk_length,
                        component_length_max).dag)

\* dagify: the node_translation it fills
dagify_translation(S, addr, expand_scc_steps, target_min_walk_length, component_length_max) ==
    dagify_unrolled(S, addr, expand_scc_steps, target_min_walk_length,
                    component_length_max).node_translation

\* ------------------------------------------ nodes_are_perfect_path_neighbors
\* paths.get_node_mapping_by_path_name(id): by path name, the mappings on a node
get_node_mapping_by_path_name(ps, id) ==
    LET on(name) == {ps[name][i] : i \in {j \in 1..Len(ps[name]) : ps[name][j].node_id = id}}
    IN [name \in {n \in DOMAIN ps : on(n) # {}} |-> on(name)]

\* paths.of_node(id): by path name, how many mappings of the path are on a node
of_node(ps, id) ==
    LET on(name) == {j \in 1..Len(ps[name]) : ps[name][j].node_id = id}
    IN [name \in {n \in DOMAIN ps : on(n) # {}} |-> Cardinality(on(name))]

\* mapping_is_total_match(Mapping): the mapping, with its edits, is one match
\* over the whole sequence of its node
mapping_is_total_match(S, m) ==
    /\ mapping_is_simple_match(m)
    /\ mapping_from_length(m) = Len(S.node[get_node(S, m.node_id)].sequence)

\* the loop over the ranked mappings of one path on the left node: [ok,
\* ranked2], ok false where the function returns false, ranked2 the mappings
\* on the right node that are not matched
RECURSIVE match_ranked(_, _, _, _)
match_ranked(ranked1, ranked2, left, right) ==
    IF ranked1 = <<>> THEN [ok |-> TRUE, ranked2 |-> ranked2]
    ELSE LET m == Head(ranked1)
             wanted == m.rank + (IF m.is_reverse = left[2] THEN 1 ELSE -1)
         IN IF wanted \notin DOMAIN ranked2 THEN [ok |-> FALSE, ranked2 |-> ranked2]
            ELSE IF (m.is_reverse = left[2]) # (ranked2[wanted].is_reverse = right[2])
            THEN [ok |-> FALSE, ranked2 |-> ranked2]
            ELSE match_ranked(Tail(ranked1), RemoveKey(ranked2, wanted), left, right)

nodes_are_perfect_path_neighbors(S, left, right) ==
    LET m1 == get_node_mapping_by_path_name(S.paths, trav_id(S, left))
        m2 == get_node_mapping_by_path_name(S.paths, trav_id(S, right))
        r2(name) == [rank \in {m.rank : m \in m2[name]} |->
                        CHOOSE m \in m2[name] : m.rank = rank]
    IN IF of_node(S.paths, trav_id(S, left)) # of_node(S.paths, trav_id(S, right))
       THEN FALSE
       ELSE \A name \in DOMAIN m1 :
                /\ match_ranked(ByRank(m1[name]), r2(name), left, right).ok
                /\ DOMAIN match_ranked(ByRank(m1[name]), r2(name), left, right).ranked2 = {}

\* ------------------------------------------------------------------ unfold
\* travs_to(trav): the set of the traversals of nodes_prev, in its order
travs_to(S, addr, trav) ==
    SortedTravs(addr, {nodes_prev(S, trav)[i] : i \in 1..Len(nodes_prev(S, trav))})

\* NodeTraversal::reverse()
trav_reverse(trav) == <<trav[1], ~trav[2]>>

\* the sequence a traversal reads
trav_sequence(S, trav) ==
    IF trav[2] THEN reverse_complement(S.node[trav[1]].sequence) ELSE S.node[trav[1]].sequence

\* the id of the node create_node has just made
created_id(V) == V.node[Len(V.node)].id

\* unfold, the main strand: the loop over the traversals after trav; U holds
\* unfolded, main_orientation, forward_edges, reversing_edges and stack
RECURSIVE unfold_nexts(_, _, _, _)
unfold_nexts(S, U, trav, nexts) ==
    IF nexts = <<>> THEN U
    ELSE LET next == Head(nexts)
             oriented_trav == U.main_orientation[trav_id(S, trav)]
             trav_edge == get_edge_travs(S, trav, next)
             made == create_node(U.unfolded, trav_sequence(S, next))
         IN unfold_nexts(S,
                IF trav_id(S, next) \in DOMAIN U.main_orientation
                THEN LET oriented_next == U.main_orientation[trav_id(S, next)]
                     IN IF next[2] # oriented_next[2]
                        THEN [U EXCEPT !.reversing_edges = @ \cup {<<trav, next>>}]
                        ELSE IF trav_edge \notin U.forward_edges
                        THEN [U EXCEPT !.forward_edges = @ \cup {trav_edge},
                                       !.unfolded = create_edge(@, oriented_trav[1],
                                                        oriented_next[1], FALSE, FALSE)]
                        ELSE U
                ELSE [U EXCEPT !.main_orientation =
                                   PutKey(@, trav_id(S, next), <<created_id(made), next[2]>>),
                               !.forward_edges = @ \cup {trav_edge},
                               !.unfolded = create_edge(made, oriented_trav[1], created_id(made),
                                                        FALSE, FALSE),
                               !.stack = Append(@, next)],
                trav, Tail(nexts))

\* unfold, the main strand: the loop over the traversals before trav
RECURSIVE unfold_prevs(_, _, _, _)
unfold_prevs(S, U, trav, prevs) ==
    IF prevs = <<>> THEN U
    ELSE LET prev == Head(prevs)
             oriented_trav == U.main_orientation[trav_id(S, trav)]
             trav_edge == get_edge_travs(S, prev, trav)
             made == create_node(U.unfolded, trav_sequence(S, prev))
         IN unfold_prevs(S,
                IF trav_id(S, prev) \in DOMAIN U.main_orientation
                THEN LET oriented_prev == U.main_orientation[trav_id(S, prev)]
                     IN IF prev[2] # oriented_prev[2]
                        THEN [U EXCEPT !.reversing_edges =
                                           @ \cup {<<trav_reverse(trav), trav_reverse(prev)>>}]
                        ELSE IF trav_edge \notin U.forward_edges
                        THEN [U EXCEPT !.forward_edges = @ \cup {trav_edge},
                                       !.unfolded = create_edge(@, oriented_prev[1],
                                                        oriented_trav[1], FALSE, FALSE)]
                        ELSE U
                ELSE [U EXCEPT !.main_orientation =
                                   PutKey(@, trav_id(S, prev), <<created_id(made), prev[2]>>),
                               !.forward_edges = @ \cup {trav_edge},
                               !.unfolded = create_edge(made, created_id(made), oriented_trav[1],
                                                        FALSE, FALSE),
                               !.stack = Append(@, prev)],
                trav, Tail(prevs))

\* unfold, the main strand: the search from the traversals of the stack
RECURSIVE unfold_stack(_, _, _)
unfold_stack(S, addr, U) ==
    IF U.stack = <<>> THEN U
    ELSE LET trav == U.stack[Len(U.stack)]
             popped == [U EXCEPT !.stack = SubSeq(@, 1, Len(@) - 1)]
             after == unfold_nexts(S, popped, trav, travs_from(S, addr, trav))
         IN unfold_stack(S, addr, unfold_prevs(S, after, trav, travs_to(S, addr, trav)))

\* unfold, the main strand: every node not yet oriented induces the
\* orientation of its component
RECURSIVE unfold_main(_, _, _, _)
unfold_main(S, addr, U, i) ==
    IF i > Len(S.node) THEN U
    ELSE IF S.node[i].id \in DOMAIN U.main_orientation THEN unfold_main(S, addr, U, i + 1)
    ELSE LET inducing == create_node(U.unfolded, S.node[i].sequence)
         IN unfold_main(S, addr,
                unfold_stack(S, addr,
                    [U EXCEPT !.unfolded = inducing,
                              !.main_orientation =
                                  PutKey(@, S.node[i].id, <<created_id(inducing), FALSE>>),
                              !.stack = <<<<i, FALSE>>>>]),
                i + 1)

\* the orders an unordered_set can be iterated in: the hash table fixes one of
\* them, and any order of the elements can be the one
RECURSIVE iteration_orders(_)
iteration_orders(ps) ==
    IF ps = {} THEN {<<>>}
    ELSE UNION {{<<m>> \o o : o \in iteration_orders(ps \ {m})} : m \in ps}

\* the sequence of the copy of a node on the strand opposite to its main one
reversed_sequence(S, U, trav) ==
    IF U.main_orientation[trav_id(S, trav)][2] THEN S.node[trav[1]].sequence
    ELSE reverse_complement(S.node[trav[1]].sequence)

\* the reversed copy of the node of a traversal is made unless there is one
reverse_node(S, U, trav) ==
    IF trav_id(S, trav) \in DOMAIN U.reversed_nodes THEN U
    ELSE LET made == create_node(U.unfolded, reversed_sequence(S, U, trav))
         IN [U EXCEPT !.unfolded = made,
                      !.reversed_nodes = PutKey(@, trav_id(S, trav), created_id(made))]

\* whether a traversal reads its node in the main orientation
on_main_strand(S, U, trav) == trav[2] = U.main_orientation[trav_id(S, trav)][2]

\* a traversal is queued at a distance unless it has been queued before
enqueue(S, U, trav, dist) ==
    IF <<trav_id(S, trav), trav[2]>> \in U.queued THEN U
    ELSE [U EXCEPT !.queue = Append(@, [trav |-> trav, dist |-> dist]),
                   !.queued = @ \cup {<<trav_id(S, trav), trav[2]>>}]

\* unfold, the reverse strand: the searches are initialized from the
\* reversing edges
RECURSIVE unfold_inits(_, _, _)
unfold_inits(S, U, inits) ==
    IF inits = <<>> THEN U
    ELSE LET init_trav == Head(inits)[1]
             init_next == Head(inits)[2]
             R == reverse_node(S, U, init_next)
             main_id == R.main_orientation[trav_id(S, init_trav)][1]
             rev_id == R.reversed_nodes[trav_id(S, init_next)]
             E == [R EXCEPT !.unfolded =
                      IF on_main_strand(S, R, init_trav)
                      THEN create_edge(@, main_id, rev_id, FALSE, FALSE)
                      ELSE create_edge(@, rev_id, main_id, FALSE, FALSE)]
         IN unfold_inits(S, enqueue(S, E, init_next, 0), Tail(inits))

\* priority_queue::top(): an entry of the least distance. Which of several
\* entries of the same distance the heap gives is left to the library, so
\* that every one of them is an outcome
queue_tops(queue) ==
    {k \in 1..Len(queue) : \A j \in 1..Len(queue) : queue[k].dist <= queue[j].dist}

\* unfold, the reverse strand: the loop over the traversals after the one
\* taken from the queue
RECURSIVE unfold_expand(_, _, _, _, _)
unfold_expand(S, U, trav, dist_thru, nexts) ==
    IF nexts = <<>> THEN U
    ELSE LET next == Head(nexts)
             edge == get_edge_travs(S, trav, next)
             R == reverse_node(S, U, next)
             rev_next == R.reversed_nodes[trav_id(S, next)]
             rev_trav == R.reversed_nodes[trav_id(S, trav)]
             E == IF edge \in R.reversed_edges THEN R
                  ELSE [R EXCEPT !.unfolded =
                           IF on_main_strand(S, R, trav)
                           THEN create_edge(@, rev_next, rev_trav, FALSE, FALSE)
                           ELSE create_edge(@, rev_trav, rev_next, FALSE, FALSE),
                                 !.reversed_edges = @ \cup {edge}]
         IN unfold_expand(S,
                IF on_main_strand(S, U, next) = on_main_strand(S, U, trav)
                THEN enqueue(S, E, next, dist_thru)
                ELSE U,
                trav, dist_thru, Tail(nexts))

\* unfold, the reverse strand: the search out to max_length, as the set of
\* the states it can end in, one for every way the queue orders its entries of
\* equal distance
RECURSIVE unfold_search(_, _, _, _)
unfold_search(S, addr, U, max_length) ==
    IF U.queue = <<>> THEN {U}
    ELSE UNION {
        LET dist_trav == U.queue[k]
            popped == [U EXCEPT !.queue = SubSeq(@, 1, k - 1) \o SubSeq(@, k + 1, Len(@))]
            dist_thru == dist_trav.dist + Len(S.node[dist_trav.trav[1]].sequence)
        IN unfold_search(S, addr,
               IF dist_thru >= max_length THEN popped
               ELSE unfold_expand(S, popped, dist_trav.trav, dist_thru,
                                  travs_from(S, addr, dist_trav.trav)),
               max_length)
        : k \in queue_tops(U.queue)}

\* unfold, the translation from the ids of the unfolded graph
unfold_translation(U) ==
    [u \in {U.main_orientation[id][1] : id \in DOMAIN U.main_orientation}
           \cup {U.reversed_nodes[id] : id \in DOMAIN U.reversed_nodes} |->
        IF \E id \in DOMAIN U.reversed_nodes : U.reversed_nodes[id] = u
        THEN LET id == CHOOSE id \in DOMAIN U.reversed_nodes : U.reversed_nodes[id] = u
             IN <<id, ~U.main_orientation[id][2]>>
        ELSE LET id == CHOOSE id \in DOMAIN U.main_orientation :
                           U.main_orientation[id][1] = u
             IN <<id, U.main_orientation[id][2]>>]

\* unfold, the search that induces the main orientation of every node
unfold_oriented(S, addr) ==
    unfold_main(S, addr,
        [unfolded |-> EmptyStore, main_orientation |-> EmptyMap,
         forward_edges |-> {}, reversing_edges |-> {}, stack |-> <<>>,
         reversed_nodes |-> EmptyMap, reversed_edges |-> {}, queued |-> {},
         queue |-> <<>>], 1)

\* unfold after the main orientations are induced: the search of the reverse
\* strand from the reversing edges, taken in the order hashed, and the
\* results it can give
unfold_reverse(S, addr, main, hashed, max_length) ==
    IF max_length = 0
    THEN {[unfolded |-> main.unfolded, node_translation |-> EmptyMap,
           main_orientation |-> main.main_orientation]}
    ELSE {[unfolded |-> searched.unfolded, node_translation |-> unfold_translation(searched),
           main_orientation |-> searched.main_orientation] :
              searched \in unfold_search(S, addr, unfold_inits(S, main, hashed), max_length)}

\* unfold(max_length, node_translation): the unfolded graph, the translation
\* and the main orientations, as the set of the results the call can give;
\* hashed is the order the unordered_set of the reversing edges is iterated in
unfold(S, addr, hashed, max_length) ==
    unfold_reverse(S, addr, unfold_oriented(S, addr), hashed, max_length)

\* --------------------------------------------------------------- net handles
\* connectivity_t: the nine tags, valued 1..9 as for_each_traversal_impl
\* counts them
connectivities ==
    <<"START_START", "START_END", "START_TIP", "END_START", "END_END", "END_TIP",
      "TIP_START", "TIP_END", "TIP_TIP">>

connectivity_value(c) == CHOOSE k \in 1..Len(connectivities) : connectivities[k] = c

\* a net_handle_t: record offset, connectivity, handle kind
get_net_handle_kind(offset, connectivity, kind) == <<offset, connectivity, kind>>

get_record_offset(net) == net[1]

get_connectivity(net) == net[2]

get_handle_type(net) == net[3]

\* the handle kinds of the records of an index, by offset
record_handle_types == <<"ROOT_HANDLE", "CHAIN_HANDLE", "SNARL_HANDLE", "NODE_HANDLE">>

\* get_net_handle(offset, connectivity): the kind is that of the record
get_net_handle(offset, connectivity) ==
    get_net_handle_kind(offset, connectivity, record_handle_types[offset + 1])

\* SnarlDistanceIndex::flip: the tests after the second are assignments, `old_connectivity =
\* END_START`, whose value is the tag assigned
flip_net(net) ==
    LET old_connectivity == get_connectivity(net)
        new_connectivity ==
            IF old_connectivity = "START_END" THEN "END_START"
            ELSE IF old_connectivity = "START_TIP" THEN "TIP_START"
            ELSE IF connectivity_value("END_START") # 0 THEN "START_END"
            ELSE IF connectivity_value("END_TIP") # 0 THEN "TIP_END"
            ELSE IF connectivity_value("TIP_START") # 0 THEN "START_TIP"
            ELSE IF connectivity_value("TIP_END") # 0 THEN "END_TIP"
            ELSE "TIP_END"
    IN get_net_handle(get_record_offset(net), new_connectivity)

\* starts_at and ends_at: an endpoint, "error" for the runtime_error
starts_at(traversal) ==
    LET connectivity == get_connectivity(traversal)
    IN IF connectivity \in {"START_START", "START_END", "START_TIP"} THEN "START"
       ELSE IF connectivity \in {"END_START", "END_END", "END_TIP"} THEN "END"
       ELSE IF connectivity \in {"TIP_START", "TIP_END", "TIP_TIP"} THEN "TIP"
       ELSE "error"

ends_at(traversal) ==
    LET connectivity == get_connectivity(traversal)
    IN IF connectivity \in {"START_START", "END_START", "TIP_START"} THEN "START"
       ELSE IF connectivity \in {"START_END", "END_END", "TIP_END"} THEN "END"
       ELSE IF connectivity \in {"START_TIP", "END_TIP", "TIP_TIP"} THEN "TIP"
       ELSE "error"


\* ------------------------------------------------------------------ model
Init ==
    /\ graph_node = <<>>
    /\ graph_edge = <<>>
    /\ node_by_id = EmptyMap
    /\ edge_by_sides = EmptyMap
    /\ edges_on_start = EmptyMap
    /\ edges_on_end = EmptyMap
    /\ current_id = 1
    /\ paths = EmptyMap
    /\ last = [op |-> "init", args |-> <<>>, out |-> <<>>]

\* the sequences nodes are created with
SeqInputs == {<<"A", "C">>}

Ids == 1..MaxId

PathNames == {"x"}

NodeIds == DOMAIN node_by_id

\* the call just made: its name, the arguments a property reads, its outcome
Call(op, args, out) == last' = [op |-> op, args |-> args, out |-> out]

\* no call is made after assert() or exit(1) ended the process
Running ==
    last.op \notin {"create_node_id_assert", "divide_node_exit", "apply_orientation_throw"}

\* the lists of offsets strictly inside a sequence of length n, strictly increasing
ValidOffsets(n) ==
    {<<a>> : a \in 1..(n - 1)}
    \cup {p \in (1..(n - 1)) \X (1..(n - 1)) : p[1] < p[2]}

\* any list of one or two offsets around a sequence of length n
AnyOffsets(n) ==
    {<<a>> : a \in (0 - 1)..(n + 1)}
    \cup (((0 - 1)..(n + 1)) \X ((0 - 1)..(n + 1)))

\* create_node(seq): the id comes from the counter
CreateNode ==
    \E seq \in SeqInputs :
        LET Do(R) == /\ R.current_id <= MaxId + 1
                     /\ Becomes(R)
                     /\ Call("create_node", <<>>, <<R.current_id - 1>>)
        IN /\ Running
           /\ Len(graph_node) < MaxNodes
           /\ Do(create_node(St, seq))

\* create_node(seq, id) with an id that is not 0 and not in use
CreateNodeId ==
    \E seq \in SeqInputs, id \in Ids :
        /\ Running
        /\ Len(graph_node) < MaxNodes
        /\ ~has_node(St, id)
        /\ Becomes(create_node_id(St, seq, id))
        /\ Call("create_node_id", <<>>, <<id>>)

\* create_node(seq, id) with any id: an id in use is taken, id 0 fails the
\* assertion
CreateNodeIdAny ==
    \E seq \in SeqInputs, id \in 1..MaxId :
        /\ Running
        /\ Len(graph_node) < MaxNodes
        /\ Becomes(create_node_id(St, seq, id))
        /\ Call("create_node_id", <<id>>, <<id>>)

CreateNodeIdZero ==
    /\ Running
    /\ Becomes(St)
    /\ Call("create_node_id_assert", <<0>>, <<>>)

\* create_edge(from, to, from_start, to_end) between nodes of the graph
CreateEdge ==
    \E from \in NodeIds, to \in NodeIds, from_start \in BOOLEAN, to_end \in BOOLEAN :
        LET Do(R) == /\ Len(R.edge) <= MaxEdges
                     /\ Becomes(R)
                     /\ Call("create_edge", <<>>, <<Len(R.edge) = Len(graph_edge)>>)
        IN /\ Running
           /\ Do(create_edge(St, from, to, from_start, to_end))

\* create_edge(from, to): from the end of one node to the start of another
CreateEdgeForward ==
    \E from \in NodeIds, to \in NodeIds :
        LET Do(R) == /\ Len(R.edge) <= MaxEdges
                     /\ Becomes(R)
                     /\ Call("create_edge", <<>>, <<Len(R.edge) = Len(graph_edge)>>)
        IN /\ Running
           /\ Do(create_edge(St, from, to, FALSE, FALSE))

\* destroy_edge(side1, side2)
DestroyEdge ==
    \E n1 \in NodeIds, n2 \in NodeIds, e1 \in BOOLEAN, e2 \in BOOLEAN :
        /\ Running
        /\ Becomes(destroy_edge_sides(St, NodeSide(n1, e1), NodeSide(n2, e2)))
        /\ Call("destroy_edge", <<>>, <<>>)

\* destroy_node(id)
DestroyNode ==
    \E id \in NodeIds :
        /\ Running
        /\ Becomes(destroy_node(St, node_by_id[id]))
        /\ Call("destroy_node", <<id>>, <<>>)

\* divide_node(get_node(id), positions, parts) at valid offsets
DivideNode ==
    \E id \in NodeIds :
        \E positions \in ValidOffsets(Len(graph_node[node_by_id[id]].sequence)) :
            LET Do(R) == /\ R.current_id <= MaxId + 1
                         /\ Becomes(R)
                         /\ Call("divide_node", <<id, positions>>,
                                 divide_node_parts(St, node_by_id[id], positions))
            IN /\ Running
               /\ Len(graph_node) + Len(positions) <= MaxNodes
               /\ Do(divide_node(St, node_by_id[id], positions))

\* divide_node(get_node(id), positions, parts) at any offsets: exit(1) where
\* the position check fails
DivideNodeAny ==
    \E id \in NodeIds :
        \E positions \in AnyOffsets(Len(graph_node[node_by_id[id]].sequence)) :
            LET Do(R) == /\ R.current_id <= MaxId + 3
                         /\ Becomes(R)
                         /\ Call("divide_node", <<id, positions>>,
                                 divide_node_parts(St, node_by_id[id], positions))
            IN /\ Running
               /\ Len(graph_node) <= MaxNodes
               /\ IF divide_node_exits(St, node_by_id[id], positions)
                  THEN /\ Becomes(St)
                       /\ Call("divide_node_exit", <<id, positions>>, <<>>)
                  ELSE Do(divide_node(St, node_by_id[id], positions))

\* swap_node_id(node_id, new_id) to an id that is not in use
SwapNodeId ==
    \E node_id \in NodeIds, new_id \in Ids :
        /\ Running
        /\ ~has_node(St, new_id)
        /\ Becomes(swap_node_id(St, node_id, new_id))
        /\ Call("swap_node_id", <<>>, <<>>)

\* apply_orientation(handle)
ApplyOrientation ==
    \E id \in NodeIds, is_reverse \in BOOLEAN :
        /\ Running
        /\ Becomes(apply_orientation(St, get_handle(id, is_reverse)))
        /\ IF apply_orientation_throws(St, get_handle(id, is_reverse))
           THEN Call("apply_orientation_throw", <<get_handle(id, is_reverse)>>, <<>>)
           ELSE Call("apply_orientation", <<get_handle(id, is_reverse)>>,
                     <<apply_orientation_ret(get_handle(id, is_reverse))>>)

\* follow_edges(handle, go_left, iteratee): the iteratee returns false on
\* the handles of stop
FollowEdges ==
    \E id \in NodeIds, is_reverse \in BOOLEAN, go_left \in BOOLEAN :
        \E stop \in {{}} \cup {{get_handle(n, r)} : n \in NodeIds, r \in BOOLEAN} :
            LET Do(R) == Call("follow_edges", <<get_handle(id, is_reverse), go_left, stop>>,
                              <<R.visited, R.ret>>)
            IN /\ Running
               /\ Becomes(St)
               /\ Do(follow_edges_until(St, get_handle(id, is_reverse), go_left, stop))

\* the edits of the paths to add: matches, an insertion, a substitution and
\* a deletion
EditInputs ==
    {[from_length |-> 1, to_length |-> 1, sequence |-> <<>>],
     [from_length |-> 2, to_length |-> 2, sequence |-> <<>>],
     [from_length |-> 0, to_length |-> 2, sequence |-> <<"T", "T">>],
     [from_length |-> 1, to_length |-> 1, sequence |-> <<"T">>],
     [from_length |-> 1, to_length |-> 0, sequence |-> <<>>]}

\* the lists of up to MaxEdits edits that take up at most avail bases of a
\* node, as an aligner writes them: matches alternate with the other edits
EditLists(avail) ==
    {es \in UNION {[1..n -> EditInputs] : n \in 1..MaxEdits} :
        /\ from_length_of(es) <= avail
        /\ \A k \in 1..(Len(es) - 1) : edit_is_match(es[k]) # edit_is_match(es[k + 1])}

\* the mappings with edits on the nodes of a store: inside their node
MappingInputs(S) ==
    UNION {UNION {
        {[node_id |-> id, is_reverse |-> is_reverse, offset |-> offset, edit |-> es] :
            is_reverse \in BOOLEAN,
            es \in EditLists(Len(S.node[S.node_by_id[id]].sequence) - offset)}
        : offset \in 0..(Len(S.node[S.node_by_id[id]].sequence) - 1)}
        : id \in DOMAIN S.node_by_id}

\* create_node(seq) with the sequences the edited graphs are made of
CreateNodeToEdit ==
    \E seq \in SeqInputs \cup {<<"A", "C", "G", "T">>} :
        LET Do(R) == /\ R.current_id <= MaxId + 1
                     /\ Becomes(R)
                     /\ Call("create_node", <<>>, <<R.current_id - 1>>)
        IN /\ Running
           /\ Len(graph_node) < MaxNodes
           /\ Do(create_node(St, seq))

\* edit(paths_to_add, save_paths = true) with one path to add, of one mapping.
\* The walk reads the nodes of node_translation: with the Node* of a node that
\* was divided again in it the walk is undefined and is not followed
Edit ==
    \E m \in MappingInputs(St) :
        LET paths_to_add == <<[name |-> "p", mapping |-> <<m>>]>>
        IN /\ Running
           /\ "p" \notin DOMAIN paths
           /\ edit_asserts(St, paths_to_add)
           /\ \E R \in {edit_broken(St, paths_to_add)} :
                  /\ ~dangling_translation(R.toReturn)
                  /\ edit_walk_asserts(paths_to_add, R)
                  /\ Becomes(sort(edit_walked(St, paths_to_add, R)))
                  /\ Call("edit", <<paths_to_add>>, <<>>)

\* the sets of dangling sides edit_fast is handed: none, or the end of a node
DanglingInputs(S) ==
    {{}} \cup {{NodeSide(id, TRUE)} : id \in DOMAIN S.node_by_id}

\* the edits of a mapping given to edit_fast
MaxFastEdits == 2

\* edit_fast(path, dangling) with a path of one mapping
EditFast ==
    \E m \in {x \in MappingInputs(St) : Len(x.edit) <= MaxFastEdits}, break_ends \in BOOLEAN :
        \E dangling \in DanglingInputs(St) :
            LET path == [name |-> "p", mapping |-> <<m>>]
                Do(R) == /\ Becomes(R.S)
                         /\ Call("edit_fast", <<path, dangling>>,
                                 <<R.dangling, R.translations>>)
            IN /\ Running
               /\ edit_fast_asserts(St, path, break_ends)
               /\ edit_fast_defined(St, path, break_ends)
               /\ Do(edit_fast(St, path, dangling, break_ends))

\* paths.append_mapping(name, mapping): a full-length mapping on a node
AppendMapping ==
    \E name \in PathNames, id \in NodeIds, is_reverse \in BOOLEAN :
        /\ Running
        /\ Len(IF name \in DOMAIN paths THEN paths[name] ELSE <<>>) < MaxMappings
        /\ Becomes([St EXCEPT !.paths = append_mapping(@, name,
                        Mapping(id, is_reverse,
                                Len(graph_node[node_by_id[id]].sequence), 0))])
        /\ Call("append_mapping", <<>>, <<>>)

\* what concat_nodes requires of its callers: the two traversals are joined
\* by an edge, no other edge enters or leaves the run between them, and they
\* are perfect path neighbours (every path visit of one continues on the other)
ConcatPre(S, nodes) ==
    LET a == trav_id(S, nodes[1])
        b == trav_id(S, nodes[2])
        r1 == nodes[1][2]
        r2 == nodes[2][2]
        right_of_a == IF r1 THEN edges_start(S, a) ELSE edges_end(S, a)
        left_of_b == IF r2 THEN edges_end(S, b) ELSE edges_start(S, b)
    IN /\ a # b
       /\ get_edge(S, NodeSide(a, ~r1), NodeSide(b, r2)) # 0
       /\ Len(right_of_a) = 1
       /\ Len(left_of_b) = 1
       /\ \A name \in DOMAIN S.paths :
            LET p == S.paths[name] IN
            \A i \in 1..Len(p) :
                /\ (p[i].node_id = a /\ p[i].is_reverse = r1) =>
                       (i < Len(p) /\ p[i + 1].node_id = b /\ p[i + 1].is_reverse = r2)
                /\ (p[i].node_id = a /\ p[i].is_reverse # r1) =>
                       (i > 1 /\ p[i - 1].node_id = b /\ p[i - 1].is_reverse # r2)
                /\ (p[i].node_id = b /\ p[i].is_reverse = r2) =>
                       (i > 1 /\ p[i - 1].node_id = a /\ p[i - 1].is_reverse = r1)
                /\ (p[i].node_id = b /\ p[i].is_reverse # r2) =>
                       (i < Len(p) /\ p[i + 1].node_id = a /\ p[i + 1].is_reverse # r1)

\* concat_nodes(nodes) on a run of two traversals
ConcatNodes ==
    \E a \in NodeIds, b \in NodeIds, r1 \in BOOLEAN, r2 \in BOOLEAN :
        LET nodes == <<<<node_by_id[a], r1>>, <<node_by_id[b], r2>>>>
            Do(R) == /\ R.current_id <= MaxId + 1
                     /\ Becomes(R)
                     /\ Call("concat_nodes", <<>>, <<R.current_id - 1>>)
        IN /\ Running
           /\ a # b
           /\ ConcatPre(St, nodes)
           /\ concat_nodes_asserts(St, nodes)
           /\ Do(concat_nodes(St, nodes))

\* the graph store on its own
Next ==
    \/ CreateNode
    \/ CreateNodeId
    \/ CreateEdge
    \/ DestroyEdge
    \/ DestroyNode
    \/ DivideNode
    \/ SwapNodeId

Spec == Init /\ [][Next]_vars

\* the graph store with embedded paths
NextPaths ==
    \/ CreateNode
    \/ CreateNodeId
    \/ CreateEdgeForward
    \/ AppendMapping
    \/ DivideNode
    \/ ConcatNodes
    \/ DestroyNode

SpecPaths == Init /\ [][NextPaths]_vars

\* nodes with path mappings on them are destroyed
NextDestroy ==
    \/ CreateNode
    \/ CreateEdgeForward
    \/ AppendMapping
    \/ DestroyNode

SpecDestroy == Init /\ [][NextDestroy]_vars

\* re-orientation of nodes through the handle interface
NextOrient ==
    \/ CreateNode
    \/ CreateEdge
    \/ DestroyEdge
    \/ ApplyOrientation

SpecOrient == Init /\ [][NextOrient]_vars

\* nodes created with ids the caller picks, in use or not
NextIds ==
    \/ CreateNode
    \/ CreateNodeIdAny
    \/ CreateNodeIdZero
    \/ DestroyNode

SpecIds == Init /\ [][NextIds]_vars

\* division at offsets the caller picks, valid or not
NextDivide ==
    \/ CreateNode
    \/ CreateEdge
    \/ DivideNodeAny

SpecDivide == Init /\ [][NextDivide]_vars

\* edges followed from the traversals of the nodes
NextFollow ==
    \/ CreateNode
    \/ CreateEdge
    \/ DestroyEdge
    \/ FollowEdges

SpecFollow == Init /\ [][NextFollow]_vars

\* graphs that are built and then edited by a path with edits
NextEdit ==
    \/ last.op # "edit" /\ CreateNodeToEdit
    \/ last.op # "edit" /\ CreateNodeId
    \/ last.op # "edit" /\ CreateEdgeForward
    \/ last.op # "edit" /\ Edit

SpecEdit == Init /\ [][NextEdit]_vars


\* graphs that are built and then edited by edit_fast
NextEditFast ==
    \/ last.op # "edit_fast" /\ CreateNodeToEdit
    \/ last.op # "edit_fast" /\ CreateEdgeForward
    \/ last.op # "edit_fast" /\ EditFast

SpecEditFast == Init /\ [][NextEditFast]_vars


\* create_node(seq) with the sequences of the graphs that are searched
CreateNodeToSearch ==
    \E seq \in SeqInputs \cup {<<"A", "A", "A", "A">>} :
        LET Do(R) == /\ R.current_id <= MaxId + 1
                     /\ Becomes(R)
                     /\ Call("create_node", <<>>, <<R.current_id - 1>>)
        IN /\ Running
           /\ Len(graph_node) < MaxNodes
           /\ Do(create_node(St, seq))

\* is_directed_acyclic()
IsDirectedAcyclic ==
    /\ Running
    /\ Becomes(St)
    /\ Call("is_directed_acyclic", <<>>, <<is_directed_acyclic(St), remaining_degrees(St)>>)

\* the ranks the addresses of the nodes of a store can have
Addresses(S) ==
    {a \in [1..Len(S.node) -> 1..Len(S.node)] :
        \A i \in 1..Len(S.node) : \A j \in 1..Len(S.node) : a[i] = a[j] => i = j}

\* is_acyclic()
IsAcyclic ==
    \E addr \in Addresses(St) :
        /\ Running
        /\ Becomes(St)
        /\ Call("is_acyclic", <<>>, <<is_acyclic(St, addr)>>)

NextAcyclic ==
    \/ CreateNodeToSearch
    \/ CreateEdge
    \/ DestroyEdge
    \/ IsDirectedAcyclic
    \/ IsAcyclic

SpecAcyclic == Init /\ [][NextAcyclic]_vars

\* strongly_connected_components()
StronglyConnectedComponents ==
    \E addr \in Addresses(St) :
        /\ Running
        /\ Becomes(St)
        /\ Call("strongly_connected_components", <<>>,
                <<strongly_connected_components(St, addr)>>)

\* multinode_strongly_connected_components()
MultinodeStronglyConnectedComponents ==
    \E addr \in Addresses(St) :
        /\ Running
        /\ Becomes(St)
        /\ Call("multinode_strongly_connected_components", <<>>,
                <<multinode_strongly_connected_components(St, addr)>>)

NextComponents ==
    \/ CreateNodeToSearch
    \/ CreateEdge
    \/ DestroyEdge
    \/ StronglyConnectedComponents
    \/ MultinodeStronglyConnectedComponents

SpecComponents == Init /\ [][NextComponents]_vars

MaxExpand == 2

\* dagify(expand_scc_steps, node_translation, target_min_walk_length,
\* component_length_max): the nodes and the edges of the graph returned
Dagify ==
    \E addr \in Addresses(St), expand_scc_steps \in 0..MaxExpand,
       target_min_walk_length \in {0, 4}, component_length_max \in {0, 6} :
        LET Do(dag, node_translation) ==
                Call("dagify",
                     <<expand_scc_steps, target_min_walk_length, component_length_max>>,
                     <<dag.node, dag.edge, node_translation>>)
        IN /\ Running
           /\ Becomes(St)
           /\ Do(dagify(St, addr, expand_scc_steps, target_min_walk_length,
                        component_length_max),
                 dagify_translation(St, addr, expand_scc_steps, target_min_walk_length,
                                    component_length_max))

NextDagify ==
    \/ CreateNode
    \/ CreateEdge
    \/ Dagify

SpecDagify == Init /\ [][NextDagify]_vars

\* paths.append_mapping(name, mapping): a match on a node from its first
\* base, of any length up to the length of the node
AppendMappingAny ==
    \E name \in {"p", "x"}, id \in NodeIds, is_reverse \in BOOLEAN, length \in 1..2 :
        /\ Running
        /\ length <= Len(graph_node[node_by_id[id]].sequence)
        /\ Len(IF name \in DOMAIN paths THEN paths[name] ELSE <<>>) < MaxMappings
        /\ Becomes([St EXCEPT !.paths = append_mapping(@, name,
                        Mapping(id, is_reverse, length, 0))])
        /\ Call("append_mapping", <<>>, <<>>)

\* nodes_are_perfect_path_neighbors(left, right)
NodesArePerfectPathNeighbors ==
    \E l \in NodeIds, r \in NodeIds, lb \in BOOLEAN, rb \in BOOLEAN :
        /\ Running
        /\ Becomes(St)
        /\ Call("nodes_are_perfect_path_neighbors", <<<<l, lb>>, <<r, rb>>>>,
                <<nodes_are_perfect_path_neighbors(St, <<get_node(St, l), lb>>,
                                                   <<get_node(St, r), rb>>)>>)

NextNeighbors ==
    \/ CreateNode
    \/ AppendMappingAny
    \/ NodesArePerfectPathNeighbors

SpecNeighbors == Init /\ [][NextNeighbors]_vars

\* ---------------------------------------------------------- for_each_handle
\* the threads of the parallel loop
NumThreads == 2

\* a for_each_handle call in progress: last.out[1] is [next, in_flight,
\* visited, stopped, done], next the index of the loop, in_flight the indexes
\* whose iteratee call has begun and not returned, visited the handles in the
\* order their calls returned, stopped whether a call has returned false
Iterating == last.op = "for_each_handle" /\ ~last.out[1].done

\* for_each_handle(iteratee, parallel) is called, with an iteratee that
\* returns false on the handles in stop
ForEachHandle ==
    \E parallel \in BOOLEAN, stop \in SUBSET {get_handle(id, FALSE) : id \in NodeIds} :
        /\ Running
        /\ last.op # "for_each_handle"
        /\ Cardinality(stop) <= 1
        /\ Becomes(St)
        /\ Call("for_each_handle", <<parallel, stop>>,
                <<[next |-> 1, in_flight |-> {}, visited |-> <<>>, stopped |-> FALSE,
                   done |-> Len(graph_node) = 0]>>)

\* the serial loop, one iteration: the iteratee is called on the next node
\* and the function returns where it returns false
VisitSerial ==
    LET it == last.out[1]
        handle == get_handle(graph_node[it.next].id, FALSE)
    IN /\ Iterating
       /\ ~last.args[1]
       /\ Becomes(St)
       /\ last' = [last EXCEPT !.out[1] =
                      [next |-> it.next + 1,
                       in_flight |-> {},
                       visited |-> Append(it.visited, handle),
                       stopped |-> handle \in last.args[2],
                       done |-> handle \in last.args[2] \/ it.next = Len(graph_node)]]

\* the parallel loop, a thread takes the next index and calls the iteratee
StartVisit ==
    LET it == last.out[1]
    IN /\ Iterating
       /\ last.args[1]
       /\ it.next <= Len(graph_node)
       /\ Cardinality(it.in_flight) < NumThreads
       /\ Becomes(St)
       /\ last' = [last EXCEPT !.out[1].next = it.next + 1,
                               !.out[1].in_flight = it.in_flight \cup {it.next}]

\* the parallel loop, an iteratee call returns: its value is not used
FinishVisit ==
    /\ Iterating
    /\ last.args[1]
    /\ \E i \in last.out[1].in_flight :
        LET it == last.out[1]
            handle == get_handle(graph_node[i].id, FALSE)
        IN /\ Becomes(St)
           /\ last' = [last EXCEPT !.out[1] =
                          [next |-> it.next,
                           in_flight |-> it.in_flight \ {i},
                           visited |-> Append(it.visited, handle),
                           stopped |-> it.stopped \/ handle \in last.args[2],
                           done |-> it.next > Len(graph_node) /\ it.in_flight = {i}]]

NextIterate ==
    \/ last.op # "for_each_handle" /\ CreateNode
    \/ last.op # "for_each_handle" /\ CreateNodeId
    \/ ForEachHandle
    \/ VisitSerial
    \/ StartVisit
    \/ FinishVisit

SpecIterate == Init /\ [][NextIterate]_vars

\* the sizes of the graphs that are unfolded
MaxUnfoldNodes == 3
MaxUnfoldEdges == 4

\* create_node(seq) with the sequences of the graphs that are unfolded; the
\* nodes are made before the edges
CreateNodeToUnfold ==
    \E seq \in {<<"A">>, <<"A", "C">>} :
        /\ Running
        /\ last.op # "unfold"
        /\ Len(graph_node) < MaxUnfoldNodes
        /\ Len(graph_edge) = 0
        /\ Becomes(create_node(St, seq))
        /\ Call("create_node", <<>>, <<current_id>>)

\* the rank of an edge among the edges that are made to be unfolded
EdgeRank(e) == (e.from * MaxUnfoldNodes + e.to) * 2 + (IF e.to_end THEN 1 ELSE 0)

\* create_edge(from, to, false, to_end): an edge out of the end of a node, to
\* the start of a node or, reversing, to its end; the edges are made in the
\* order of their ranks, and an edge that joins two ends is given from the
\* node of the lower id
CreateEdgeToUnfold ==
    \E from \in NodeIds, to \in NodeIds, to_end \in BOOLEAN :
        LET Do(R) == /\ to_end => from <= to
                     /\ Len(R.edge) = Len(graph_edge) + 1
                     /\ Len(R.edge) <= MaxUnfoldEdges
                     /\ \A k \in 1..Len(graph_edge) :
                            EdgeRank(graph_edge[k]) < EdgeRank(R.edge[Len(R.edge)])
                     /\ Becomes(R)
                     /\ Call("create_edge", <<>>, <<TRUE>>)
        IN /\ Running
           /\ last.op # "unfold"
           /\ Do(create_edge(St, from, to, FALSE, to_end))

\* unfold(max_length, node_translation)
Unfold ==
    \E addr \in Addresses(St), max_length \in {0, 3} :
        LET Do(R) == /\ Becomes(St)
                     /\ Call("unfold", <<max_length>>,
                             <<R.unfolded.node, R.unfolded.edge, R.node_translation,
                               R.main_orientation>>)
            main == unfold_oriented(St, addr)
        IN /\ Running
           /\ last.op # "unfold"
           /\ Len(graph_node) > 0
           /\ \E hashed \in (IF max_length = 0 THEN {<<>>}
                            ELSE iteration_orders(main.reversing_edges)) :
                  \E R \in unfold_reverse(St, addr, main, hashed, max_length) : Do(R)

NextUnfold ==
    \/ CreateNodeToUnfold
    \/ CreateEdgeToUnfold
    \/ Unfold

SpecUnfold == Init /\ [][NextUnfold]_vars

\* the net handles of the records of an index: a node record is handled as a
\* node or as a chain
NetHandles ==
    {get_net_handle_kind(offset, connectivities[k], kind) :
        offset \in 0..(Len(record_handle_types) - 1), k \in 1..Len(connectivities),
        kind \in {"CHAIN_HANDLE", "NODE_HANDLE", "SNARL_HANDLE", "ROOT_HANDLE"}}

\* flip(net)
Flip ==
    \E net \in NetHandles :
        /\ Running
        /\ Becomes(St)
        /\ Call("flip", <<net>>, <<flip_net(net)>>)

\* starts_at(traversal)
StartsAt ==
    \E net \in NetHandles :
        /\ Running
        /\ Becomes(St)
        /\ Call("starts_at", <<net>>, <<starts_at(net)>>)

\* ends_at(traversal)
EndsAt ==
    \E net \in NetHandles :
        /\ Running
        /\ Becomes(St)
        /\ Call("ends_at", <<net>>, <<ends_at(net)>>)

NextNet ==
    \/ Flip
    \/ StartsAt
    \/ EndsAt

SpecNet == Init /\ [][NextNet]_vars

\* ------------------------------------------------------------------ snarl distance index
\* TemporaryDistanceIndex(graph, snarl_finder): the temporary index is built by the four
\* callbacks of traverse_decomposition and then by a bottom-up pass over the chains found.
\* The index under construction is carried in last.out[1]; a frame is a pair
\* <<record type, offset into that type's record vector>> (offsets count from 0).
\* The identifiers of the source that name no declaration in their callback are read as
\* the value of the same role in that callback: in the snarl end callback node_id,
\* chain_end_handle and chain_start_handle stand for snarl_end_handle, and chain_index
\* stands for the frame left on top of the stack (the enclosing chain), except in the
\* assertion on the frame just popped, where it stands for that frame. Both assertions
\* of the snarl end callback hold on a properly nested sequence of callbacks.
\* populate_snarl_index is followed in what it writes: the ranks and parents of the
\* children it finds and the node count of the snarl. Its loop over the children has
\* an empty body and computes no distance, and no line of the source writes
\* is_trivial_snarl, min_length, loop_start or loop_end of a snarl record, so the pass
\* over the chains reads them as it finds them: they are inputs.

MaxIndexNodes == 3
MaxChains == 2
MaxSnarls == 2

\* the values tried for the enumerator TEMP_CHAIN
MaxTempChain == 2

IndexHandles == (1..MaxIndexNodes) \X BOOLEAN

TemporaryChainRecord ==
    [start_node_id |-> 0, start_node_rev |-> FALSE, end_node_id |-> 0,
     end_node_rev |-> FALSE, parent |-> <<"TEMP_ROOT", 0>>, children |-> <<>>,
     rank_in_parent |-> 0,
     prefix_sum |-> <<>>, forward_loops |-> <<>>, backward_loops |-> <<>>]

TemporarySnarlRecord ==
    [start_node_id |-> 0, start_node_rev |-> FALSE, start_node_length |-> 0,
     end_node_id |-> 0, end_node_rev |-> FALSE, end_node_length |-> 0,
     parent |-> <<"TEMP_ROOT", 0>>, children |-> <<>>, node_count |-> 0]

TemporaryNodeRecord ==
    [node_id |-> 0, node_length |-> 0, rank_in_parent |-> 0,
     reversed_in_parent |-> FALSE, parent |-> <<"TEMP_ROOT", 0>>]

\* vec.back() and vec.pop_back()
back(vec) == vec[Len(vec)]
pop_back(vec) == SubSeq(vec, 1, Len(vec) - 1)

\* the record a frame designates gets a child appended
emplace_child(tdi, frame, child) ==
    IF frame[1] = "TEMP_CHAIN"
    THEN [tdi EXCEPT !.temp_chain_records[frame[2] + 1].children = Append(@, child)]
    ELSE [tdi EXCEPT !.temp_snarl_records[frame[2] + 1].children = Append(@, child)]

\* the chain start callback
chain_start(tdi, chain_start_handle) ==
    LET frame == <<"TEMP_CHAIN", Len(tdi.temp_chain_records)>>
        node_id == get_id(chain_start_handle)
    IN [tdi EXCEPT
          !.stack = Append(@, frame),
          !.temp_chain_records =
              Append(@, [TemporaryChainRecord EXCEPT
                           !.start_node_id = node_id,
                           !.start_node_rev = get_is_reverse(chain_start_handle)]),
          !.temp_node_records[node_id] =
              [@ EXCEPT !.node_id = node_id,
                        !.node_length = tdi.graph_length[node_id],
                        !.rank_in_parent = 0,
                        !.reversed_in_parent = get_is_reverse(chain_start_handle),
                        !.parent = frame]]

\* the chain end callback, were every chain recorded as a child of the root
chain_end_under_root(tdi, chain_end_handle) ==
    LET chain_index == back(tdi.stack)
        stack == pop_back(tdi.stack)
        node_id == get_id(chain_end_handle)
    IN [tdi EXCEPT
          !.stack = stack,
          !.temp_chain_records[chain_index[2] + 1] =
              [@ EXCEPT !.end_node_id = node_id,
                        !.end_node_rev = get_is_reverse(chain_end_handle),
                        !.parent = <<"TEMP_ROOT", 0>>],
          !.all_chains = Append(@, chain_index)]

\* the chain end callback
chain_end(tdi, chain_end_handle) ==
    LET chain_index == back(tdi.stack)
        stack == pop_back(tdi.stack)
        node_id == get_id(chain_end_handle)
        sealed == [tdi EXCEPT
                     !.stack = stack,
                     !.temp_chain_records[chain_index[2] + 1] =
                         [@ EXCEPT !.end_node_id = node_id,
                                   !.end_node_rev = get_is_reverse(chain_end_handle),
                                   !.parent = IF stack = <<>> THEN <<"TEMP_ROOT", 0>>
                                              ELSE back(stack)],
                     !.all_chains = Append(@, chain_index)]
    IN IF stack = <<>> THEN sealed ELSE emplace_child(sealed, back(stack), chain_index)

\* the snarl start callback
snarl_start(tdi, snarl_start_handle) ==
    LET frame == <<"TEMP_SNARL", Len(tdi.temp_snarl_records)>>
        node_id == get_id(snarl_start_handle)
    IN [tdi EXCEPT
          !.stack = Append(@, frame),
          !.temp_snarl_records =
              Append(@, [TemporarySnarlRecord EXCEPT
                           !.start_node_id = node_id,
                           !.start_node_rev = get_is_reverse(snarl_start_handle),
                           !.start_node_length = tdi.graph_length[node_id]])]

\* the snarl end callback; it is entered with a chain frame under the snarl frame
snarl_end(tdi, snarl_end_handle) ==
    LET snarl_index == back(tdi.stack)
        stack == pop_back(tdi.stack)
        chain_index == back(stack)
        node_id == get_id(snarl_end_handle)
        sealed == [tdi EXCEPT
                     !.stack = stack,
                     !.temp_snarl_records[snarl_index[2] + 1] =
                         [@ EXCEPT !.end_node_id = node_id,
                                   !.end_node_rev = get_is_reverse(snarl_end_handle),
                                   !.end_node_length = tdi.graph_length[node_id],
                                   !.parent = chain_index],
                     !.temp_node_records[node_id] =
                         [@ EXCEPT !.node_id = node_id,
                                   !.node_length = tdi.graph_length[node_id],
                                   !.reversed_in_parent = get_is_reverse(snarl_end_handle),
                                   !.parent = chain_index]]
        as_child == emplace_child(sealed, chain_index, snarl_index)
        again == emplace_child(as_child, chain_index, snarl_index)
    IN emplace_child(again, chain_index, <<"TEMP_NODE", node_id - tdi.min_node_id>>)

\* the index before the traversal: no record, every node record default-constructed
new_temp_index(graph_length) ==
    [graph_length |-> graph_length,
     min_node_id |-> 1,
     max_node_id |-> MaxIndexNodes,
     stack |-> <<>>,
     all_chains |-> <<>>,
     temp_chain_records |-> <<>>,
     temp_snarl_records |-> <<>>,
     temp_node_records |-> [id \in 1..MaxIndexNodes |-> TemporaryNodeRecord],
     status |-> "ok",
     processed |-> <<>>,
     open |-> <<>>,
     visited |-> {}]

\* traverse_decomposition is calling back
Traversing ==
    last.op \in {"TemporaryDistanceIndex", "chain_start", "chain_end",
                 "snarl_start", "snarl_end"}

\* The decomposition the snarl finder walks is recorded in two fields the callbacks never
\* read: open lists the structures begun and not ended, each with the frame its start
\* callback pushed and the boundary handle the walk stands at; visited holds the node ids
\* already met as a boundary.
open_structure(tdi, kind, handle) ==
    Append(tdi.open, [kind |-> kind, frame |-> back(tdi.stack), at |-> handle])

\* the constructor is entered with a graph whose nodes have the given lengths
ConstructTemporaryIndex ==
    /\ last.op = "init"
    /\ \E graph_length \in [1..MaxIndexNodes -> 1..2] :
        /\ Becomes(St)
        /\ Call("TemporaryDistanceIndex", <<graph_length>>,
                <<new_temp_index(graph_length), <<>>>>)

\* a chain begins at the top level or inside the open snarl, at a node not met before
ChainStart ==
    /\ Traversing
    /\ Len(last.out[1].temp_chain_records) < MaxChains
    /\ IF last.out[1].open = <<>> THEN TRUE ELSE back(last.out[1].open).kind = "snarl"
    /\ \E handle \in IndexHandles :
        LET tdi == last.out[1]
            Do(R) == Call("chain_start", <<handle>>,
                          <<[R EXCEPT !.open = open_structure(R, "chain", handle),
                                      !.visited = @ \cup {get_id(handle)}], <<>>>>)
        IN /\ get_id(handle) \notin tdi.visited
           /\ Becomes(St)
           /\ Do(chain_start(tdi, handle))

\* a snarl begins at the boundary the open chain stands at
SnarlStart ==
    /\ Traversing
    /\ Len(last.out[1].temp_snarl_records) < MaxSnarls
    /\ last.out[1].open # <<>>
    /\ back(last.out[1].open).kind = "chain"
    /\ LET tdi == last.out[1]
           handle == back(tdi.open).at
           Do(R) == Call("snarl_start", <<handle>>,
                         <<[R EXCEPT !.open = open_structure(R, "snarl", handle)], <<>>>>)
       IN /\ Becomes(St)
          /\ Do(snarl_start(tdi, handle))

\* the open snarl ends at a node not met before, the next boundary of its chain
SnarlEnd ==
    /\ Traversing
    /\ last.out[1].open # <<>>
    /\ back(last.out[1].open).kind = "snarl"
    /\ \E handle \in IndexHandles :
        LET tdi == last.out[1]
            rest == pop_back(tdi.open)
            Do(R) == Call("snarl_end", <<handle>>,
                          <<[R EXCEPT !.open = [rest EXCEPT ![Len(rest)].at = handle],
                                      !.visited = @ \cup {get_id(handle)}],
                            back(tdi.stack)>>)
        IN /\ get_id(handle) \notin tdi.visited
           /\ Becomes(St)
           /\ Do(snarl_end(tdi, handle))

\* the open chain ends at the boundary it stands at
ChainEnd ==
    /\ Traversing
    /\ last.out[1].open # <<>>
    /\ back(last.out[1].open).kind = "chain"
    /\ LET tdi == last.out[1]
           handle == back(tdi.open).at
           Do(R) == Call("chain_end", <<handle>>,
                         <<[R EXCEPT !.open = pop_back(tdi.open)], back(tdi.stack)>>)
       IN /\ Becomes(St)
          /\ Do(chain_end(tdi, handle))

\* An int64_t value v is written <<q, r>> with v = q * 2^63 + r and r small. The
\* distances of the pass are sums of node lengths and of the sentinel, so that every
\* value met is within a few units of 0, of the largest value or of the smallest
\* value: the largest value 2^63 - 1 is <<1, -1>>, the smallest value -2^63 is
\* <<-1, 0>>, and a small n is <<0, n>>
int64_t(n) == <<0, n>>

\* std::numeric_limits<int64_t>::max(), the value written for "no loop": 2^63 - 1
numeric_limits_max == <<1, 0 - 1>>

\* the sum of an int64_t and a small integer, before it is put into 64 bits
int64_plus(x, n) == <<x[1], x[2] + n>>

\* a < b on values that are in range
int64_less(a, b) == a[1] < b[1] \/ (a[1] = b[1] /\ a[2] < b[2])

\* the sum is beyond 2^63 - 1 or below -2^63: a signed overflow
overflows(x) ==
    ~(x[1] = 0 \/ (x[1] = 1 /\ x[2] < 0) \/ (x[1] = 0 - 1 /\ x[2] >= 0))

\* the value a wrapping build leaves in the register: the sum modulo 2^64
wrap(x) ==
    IF ~overflows(x) THEN x
    ELSE IF x[1] > 0 THEN <<x[1] - 2, x[2]>>
    ELSE <<x[1] + 2, x[2]>>

std_min(a, b) == IF int64_less(b, a) THEN b ELSE a

\* vec.resize(n, value)
resize(vec, n, value) == [k \in 1..n |-> IF k <= Len(vec) THEN vec[k] ELSE value]

\* The fields of a snarl record that the constructor reads and never writes: snarls is a
\* sequence, one record [is_trivial_snarl, min_length, loop_start, loop_end] per snarl.
\* A signed overflow is undefined: build says whether the sum wraps or traps.
\* status is "ok" while the run is defined, "trap" after a trapped overflow, "abort"
\* after a failed assertion, "hang" in a loop that does not end, "undefined" after a
\* use of memory outside a vector that the model does not follow further.

\* The graph inside a snarl, as populate_snarl_index walks it. The children of the
\* snarl are the chains the callbacks recorded under it and the nodes that are no
\* boundary and that inside places in it (inside gives every such node the offset of
\* its snarl, or -1); each child lies between the two boundaries of the snarl, and a
\* snarl without a child has an edge from one boundary to the other.
snarl_items(tdi, s, inside) ==
    LET children == tdi.temp_snarl_records[s + 1].children
        chains == [k \in 1..Len(children) |->
                      LET chain == tdi.temp_chain_records[children[k][2] + 1]
                      IN [first |-> get_handle(chain.start_node_id, chain.start_node_rev),
                          last |-> get_handle(chain.end_node_id, chain.end_node_rev)]]
        nodes == SortedIds({id \in DOMAIN inside : inside[id] = s})
    IN chains \o [k \in 1..Len(nodes) |->
                     [first |-> get_handle(nodes[k], FALSE),
                      last |-> get_handle(nodes[k], FALSE)]]

\* graph->follow_edges(h, false, ...) from a handle of the walk of the snarl s
snarl_follow_edges(tdi, s, inside, h) ==
    LET temp_snarl_record == tdi.temp_snarl_records[s + 1]
        snarl_start_in == get_handle(temp_snarl_record.start_node_id,
                                     temp_snarl_record.start_node_rev)
        snarl_end_out == get_handle(temp_snarl_record.end_node_id,
                                    temp_snarl_record.end_node_rev)
        items == snarl_items(tdi, s, inside)
    IN IF h = snarl_start_in
       THEN (IF items = <<>> THEN <<snarl_end_out>>
             ELSE [k \in 1..Len(items) |-> items[k].first])
       ELSE IF h = flip(snarl_end_out)
       THEN (IF items = <<>> THEN <<flip(snarl_start_in)>>
             ELSE [k \in 1..Len(items) |-> flip(items[k].last)])
       ELSE IF \E k \in 1..Len(items) : items[k].last = h THEN <<snarl_end_out>>
       ELSE IF \E k \in 1..Len(items) : flip(items[k].first) = h
       THEN <<flip(snarl_start_in)>>
       ELSE <<>>

\* temp_node_records[rev - min_node_id].rank_in_parent = rank, lines 212 and 245: the
\* index is the orientation flag less the lowest node id
set_rank_at_orientation(tdi, rev, rank) ==
    LET index == (IF rev THEN 1 ELSE 0) - tdi.min_node_id
    IN IF index < 0 \/ index >= Len(tdi.temp_node_records)
       THEN [tdi EXCEPT !.status = "undefined"]
       ELSE [tdi EXCEPT !.temp_node_records[index + 1].rank_in_parent = rank]

\* the parent of the record a frame designates, as line 192 reads it: a snarl record
\* for a snarl frame, a chain record for any other
record_parent(tdi, frame) ==
    IF frame[1] = "TEMP_SNARL" THEN tdi.temp_snarl_records[frame[2] + 1].parent
    ELSE tdi.temp_chain_records[frame[2] + 1].parent

\* get_ancestor_of_node, the loop of lines 190-197: the frame reached when the parent
\* is the snarl, <<"ABORT", 0>> where assert(false) is reached with the assertions
\* compiled in, <<"HANG", 0>> where the loop comes to a frame again, and
\* <<"UNDEFINED", 0>> where it reads a record that does not exist
RECURSIVE climb_to_snarl(_, _, _, _, _, _)
climb_to_snarl(tdi, snarl_index, curr_index, parent_index, checked, met) ==
    IF parent_index = snarl_index THEN curr_index
    ELSE IF parent_index \in met THEN <<"HANG", 0>>
    ELSE IF parent_index[2] >= Len(IF parent_index[1] = "TEMP_SNARL"
                                   THEN tdi.temp_snarl_records
                                   ELSE tdi.temp_chain_records)
    THEN <<"UNDEFINED", 0>>
    ELSE IF record_parent(tdi, parent_index)[1] = "TEMP_ROOT" /\ checked >= 0
    THEN <<"ABORT", 0>>
    ELSE climb_to_snarl(tdi, snarl_index, parent_index, record_parent(tdi, parent_index),
                        checked, met \cup {parent_index})

get_ancestor_of_node(tdi, snarl_index, curr_id, checked) ==
    climb_to_snarl(tdi, snarl_index, <<"TEMP_NODE", curr_id - tdi.min_node_id>>,
                   tdi.temp_node_records[curr_id].parent, checked, {})

\* the callback of follow_edges, lines 219-241, on one handle h. P is [tdi, all_nodes,
\* next_handles]. checked is -1 where the assertions are compiled out, and the value
\* of TEMP_CHAIN where they are compiled in: assert(child_chain_index.second =
\* TEMP_CHAIN) assigns it to the offset and fails when it is 0
populate_visit(P, s, h, checked) ==
    LET tdi == P.tdi
        snarl_index == <<"TEMP_SNARL", s>>
        temp_snarl_record == tdi.temp_snarl_records[s + 1]
        snarl_end_out == get_handle(temp_snarl_record.end_node_id,
                                    temp_snarl_record.end_node_rev)
        snarl_start_out == get_handle(temp_snarl_record.start_node_id,
                                      ~temp_snarl_record.start_node_rev)
        curr_id == get_id(h)
        size == Cardinality(P.all_nodes)
        child_chain_index == get_ancestor_of_node(tdi, snarl_index, curr_id, checked)
        offset == IF checked >= 0 THEN checked ELSE child_chain_index[2]
        Stopped(status) == [P EXCEPT !.tdi.status = status]
    IN IF tdi.status # "ok" \/ h = snarl_end_out \/ h = snarl_start_out THEN P
       ELSE IF tdi.temp_node_records[curr_id].node_id = 0
       THEN [tdi |-> [tdi EXCEPT !.temp_node_records[curr_id] =
                         [node_id |-> curr_id, node_length |-> tdi.graph_length[curr_id],
                          rank_in_parent |-> size, reversed_in_parent |-> FALSE,
                          parent |-> snarl_index]],
             all_nodes |-> P.all_nodes \cup {<<"TEMP_NODE", curr_id - tdi.min_node_id>>},
             next_handles |-> Append(P.next_handles, h)]
       ELSE IF child_chain_index[1] = "ABORT" THEN Stopped("abort")
       ELSE IF child_chain_index[1] = "HANG" THEN Stopped("hang")
       ELSE IF child_chain_index[1] = "UNDEFINED" THEN Stopped("undefined")
       ELSE IF child_chain_index[1] = "TEMP_NODE"
       THEN [P EXCEPT
               !.tdi.temp_node_records[child_chain_index[2] + 1].parent = snarl_index,
               !.tdi.temp_node_records[child_chain_index[2] + 1].rank_in_parent = size,
               !.all_nodes = @ \cup {child_chain_index}]
       ELSE IF checked = 0 THEN Stopped("abort")
       ELSE IF offset >= Len(tdi.temp_chain_records) THEN Stopped("undefined")
       ELSE IF checked > 0 /\ tdi.temp_chain_records[offset + 1].parent # snarl_index
       THEN Stopped("abort")
       ELSE [P EXCEPT !.tdi.temp_chain_records[offset + 1].rank_in_parent = size,
                      !.all_nodes = @ \cup {<<child_chain_index[1], offset>>}]

RECURSIVE populate_follow(_, _, _, _)
populate_follow(P, s, hs, checked) ==
    IF hs = <<>> THEN P
    ELSE populate_follow(populate_visit(P, s, Head(hs), checked), s, Tail(hs), checked)

\* the loop of lines 215-243: the handle put in last is taken first
RECURSIVE populate_walk(_, _, _, _)
populate_walk(P, s, inside, checked) ==
    IF P.next_handles = <<>> \/ P.tdi.status # "ok" THEN P
    ELSE populate_walk(
             populate_follow([P EXCEPT !.next_handles = pop_back(@)], s,
                             snarl_follow_edges(P.tdi, s, inside, back(P.next_handles)),
                             checked),
             s, inside, checked)

\* populate_snarl_index for the snarl at offset s, called at line 150
populate_snarl_index(tdi, s, inside, checked) ==
    LET temp_snarl_record == tdi.temp_snarl_records[s + 1]
        snarl_start_in == get_handle(temp_snarl_record.start_node_id,
                                     temp_snarl_record.start_node_rev)
        snarl_end_in == get_handle(temp_snarl_record.end_node_id,
                                   ~temp_snarl_record.end_node_rev)
        Ended(P) ==
            LET ranked == set_rank_at_orientation(P.tdi, temp_snarl_record.end_node_rev,
                                                  Cardinality(P.all_nodes))
                count == Cardinality(P.all_nodes
                             \cup {<<"TEMP_NODE",
                                     temp_snarl_record.end_node_id - tdi.min_node_id>>})
            IN IF P.tdi.status # "ok" THEN P.tdi
               ELSE IF ranked.status # "ok" THEN ranked
               ELSE [ranked EXCEPT !.temp_snarl_records[s + 1].node_count = count]
        Walked(begun) ==
            IF begun.status # "ok" THEN begun
            ELSE Ended(populate_walk(
                     [tdi |-> begun,
                      all_nodes |-> {<<"TEMP_NODE",
                                       temp_snarl_record.start_node_id - tdi.min_node_id>>},
                      next_handles |-> <<snarl_start_in, snarl_end_in>>],
                     s, inside, checked))
    IN Walked(set_rank_at_orientation(tdi, temp_snarl_record.start_node_rev, 0))

\* one child of the chain at offset c, in the loop of lines 131-159: a snarl that is
\* not trivial is populated before its lengths are read
fill_prefix_child(tdi, c, child, snarls, build, inside, checked) ==
    LET given == snarls[child[2] + 1]
        Summed(populated) ==
            LET temp_chain_record == populated.temp_chain_records[c + 1]
                temp_snarl_record == populated.temp_snarl_records[child[2] + 1]
                prefix == IF given.is_trivial_snarl
                          THEN int64_plus(back(temp_chain_record.prefix_sum),
                                          temp_snarl_record.start_node_length)
                          ELSE int64_plus(back(temp_chain_record.prefix_sum),
                                          given.min_length
                                              + temp_snarl_record.start_node_length)
                loop == IF given.is_trivial_snarl
                        THEN int64_plus(back(temp_chain_record.backward_loops),
                                        2 * temp_snarl_record.start_node_length)
                        ELSE int64_plus(back(temp_chain_record.backward_loops),
                                        2 * (temp_snarl_record.start_node_length
                                                 + given.min_length))
                stored == IF given.is_trivial_snarl THEN wrap(loop)
                          ELSE std_min(given.loop_end, wrap(loop))
            IN IF populated.status # "ok" THEN populated
               ELSE IF (overflows(prefix) \/ overflows(loop)) /\ build = "trap"
               THEN [populated EXCEPT !.status = "trap"]
               ELSE [populated EXCEPT
                       !.temp_chain_records[c + 1].prefix_sum = Append(@, wrap(prefix)),
                       !.temp_chain_records[c + 1].backward_loops = Append(@, stored)]
    IN IF tdi.status # "ok" \/ child[1] # "TEMP_SNARL" THEN tdi
       ELSE IF given.is_trivial_snarl THEN Summed(tdi)
       ELSE Summed(populate_snarl_index(tdi, child[2], inside, checked))

RECURSIVE fill_prefix(_, _, _, _, _, _, _)
fill_prefix(tdi, c, k, snarls, build, inside, checked) ==
    IF k > Len(tdi.temp_chain_records[c + 1].children) THEN tdi
    ELSE fill_prefix(fill_prefix_child(tdi, c, tdi.temp_chain_records[c + 1].children[k],
                                       snarls, build, inside, checked),
                     c, k + 1, snarls, build, inside, checked)

\* one round j of the loop of lines 162-172 over the chain at offset c; j counts from 0.
\* children[children.size()] does not exist: stray_child says whether the pair read there
\* is taken for a snarl. forward_loops[j + 1] may not exist: garbage is the value read.
fill_forward_round(tdi, c, j, snarls, build, stray_child, garbage) ==
    LET temp_chain_record == tdi.temp_chain_records[c + 1]
        size == Len(temp_chain_record.forward_loops)
        child == temp_chain_record.children[j + 1]
        temp_snarl_record == tdi.temp_snarl_records[child[2] + 1]
        given == snarls[child[2] + 1]
        next_loop == IF j + 1 < size THEN temp_chain_record.forward_loops[j + 2]
                     ELSE garbage
        loop == int64_plus(next_loop, 2 * temp_snarl_record.end_node_length)
        stored == IF given.is_trivial_snarl THEN wrap(loop)
                  ELSE std_min(wrap(loop), given.loop_start)
    IN IF tdi.status # "ok" THEN tdi
       ELSE IF j = Len(temp_chain_record.children)
            THEN IF stray_child THEN [tdi EXCEPT !.status = "undefined"] ELSE tdi
       ELSE IF child[1] # "TEMP_SNARL" THEN tdi
       ELSE IF overflows(loop) /\ build = "trap" THEN [tdi EXCEPT !.status = "trap"]
       ELSE IF j >= size THEN [tdi EXCEPT !.status = "undefined"]
       ELSE [tdi EXCEPT !.temp_chain_records[c + 1].forward_loops[j + 1] = stored]

RECURSIVE fill_forward(_, _, _, _, _, _, _)
fill_forward(tdi, c, j, snarls, build, stray_child, garbage) ==
    IF j < 0 THEN tdi
    ELSE fill_forward(fill_forward_round(tdi, c, j, snarls, build, stray_child, garbage),
                      c, j - 1, snarls, build, stray_child, garbage)

\* the body of the loop of line 125 for the chain at offset c
fill_chain(tdi, c, snarls, build, stray_child, garbage, inside, checked) ==
    LET begun == [tdi EXCEPT
                    !.temp_chain_records[c + 1].prefix_sum = Append(@, int64_t(0)),
                    !.temp_chain_records[c + 1].backward_loops =
                        Append(@, numeric_limits_max),
                    !.processed = Append(@, c)]
        summed == fill_prefix(begun, c, 1, snarls, build, inside, checked)
        sized == [summed EXCEPT
                    !.temp_chain_records[c + 1].forward_loops =
                        resize(@, Len(summed.temp_chain_records[c + 1].prefix_sum),
                               numeric_limits_max)]
    IN IF tdi.status # "ok" THEN tdi
       ELSE IF summed.status # "ok" THEN summed
       ELSE fill_forward(sized, c, Len(sized.temp_chain_records[c + 1].children),
                         snarls, build, stray_child, garbage)

\* rounds i, i - 1, ..., 0 of the loop of line 125; i counts from 0
RECURSIVE fill_chains(_, _, _, _, _, _, _, _)
fill_chains(tdi, i, snarls, build, stray_child, garbage, inside, checked) ==
    IF i < 0 THEN tdi
    ELSE fill_chains(fill_chain(tdi, tdi.all_chains[i + 1][2], snarls, build,
                                stray_child, garbage, inside, checked),
                     i - 1, snarls, build, stray_child, garbage, inside, checked)

\* The bottom-up pass, lines 125-173. Its first round reads all_chains[size], which does
\* not exist: stray_chain is the offset found there, a chain's offset or -1 for a value
\* that is no chain's offset.
distance_pass(tdi, snarls, build, stray_chain, stray_child, garbage, inside, checked) ==
    LET size == Len(tdi.temp_chain_records)
        started == [tdi EXCEPT !.status = "ok", !.processed = <<>>]
        first == IF stray_chain < 0 THEN [started EXCEPT !.status = "undefined"]
                 ELSE fill_chain(started, stray_chain, snarls, build, stray_child, garbage,
                                 inside, checked)
    IN fill_chains(first, size - 1, snarls, build, stray_child, garbage, inside, checked)

SnarlInputs ==
    [is_trivial_snarl : BOOLEAN, min_length : 0..1,
     loop_start : {numeric_limits_max}, loop_end : {int64_t(3), numeric_limits_max}]

\* the snarls the pass populates: those that are not trivial
populated_snarls(snarls) ==
    {s \in 0..(Len(snarls) - 1) : ~snarls[s + 1].is_trivial_snarl}

\* the places of the nodes that are no boundary: each in a populated snarl or in none
InsideInputs(tdi, snarls) ==
    [(1..MaxIndexNodes) \ tdi.visited -> {0 - 1} \cup populated_snarls(snarls)]

\* the builds of the assertions: compiled out, or compiled in with a value of
\* TEMP_CHAIN, which the declaration of temp_record_t gives. They differ only
\* where a populated snarl has a chain in it
CheckedInputs(tdi, snarls) ==
    IF \E s \in populated_snarls(snarls) : tdi.temp_snarl_records[s + 1].children # <<>>
    THEN (0 - 1)..MaxTempChain
    ELSE {0 - 1}

\* the traversal has returned and the constructor runs its second pass
DistancePass ==
    /\ Traversing
    /\ last.out[1].open = <<>>
    /\ \E snarls \in [1..Len(last.out[1].temp_snarl_records) -> SnarlInputs],
          build \in {"wrap", "trap"},
          stray_chain \in (0 - 1)..(Len(last.out[1].temp_chain_records) - 1),
          stray_child \in BOOLEAN,
          garbage \in {int64_t(0), numeric_limits_max} :
        \E inside \in InsideInputs(last.out[1], snarls),
           checked \in CheckedInputs(last.out[1], snarls) :
            /\ Becomes(St)
            /\ Call("distance_pass",
                    <<snarls, build, stray_chain, stray_child, garbage, inside, checked>>,
                    <<distance_pass(last.out[1], snarls, build, stray_chain, stray_child,
                                    garbage, inside, checked)>>)

NextIndex ==
    \/ ConstructTemporaryIndex
    \/ ChainStart
    \/ SnarlStart
    \/ SnarlEnd
    \/ ChainEnd
    \/ DistancePass

SpecIndex == Init /\ [][NextIndex]_vars

NextTraverse ==
    \/ ConstructTemporaryIndex
    \/ ChainStart
    \/ SnarlStart
    \/ SnarlEnd
    \/ ChainEnd

SpecTraverse == Init /\ [][NextTraverse]_vars

\* ------------------------------------------------------------------ parallel iteration
\* increment_node_ids(increment) runs for_each_node_parallel: the threads of the team
\* take the node indexes one at a time (schedule(dynamic,1)) and each calls the lambda
\* on the node taken, n->set_id(n->id() + increment), then counts it in the shared
\* counter completed with an unsynchronised completed++ (a read and a write). The loop
\* state is carried in last.out[1]: next is the next index to hand out, threads[t] is
\* the position of thread t ("idle", "lambda" before set_id, "count" between the read
\* and the write of completed) with the node index it took, the value of completed it
\* read and the mutexes it holds. VG has no mutex and the lambda locks none.
\* When that team has joined, for_each_edge_parallel runs a second team over the edges
\* (parallel for with no schedule clause: which thread runs which edge, and when, is
\* left to the implementation): a thread takes an edge not yet taken ("edge_lambda"),
\* calls the lambda on it, e->set_from(e->from() + increment) and
\* e->set_to(e->to() + increment), and counts it in the counter of that loop,
\* edge_completed, with an unsynchronised completed++ ("edge_count"). edge_taken is
\* the set of the edge indexes taken. rebuild_indexes and the path step run when the
\* second team has joined.

\* clear_indexes_no_resize()
clear_indexes(S) ==
    [S EXCEPT !.node_by_id = EmptyMap, !.edge_by_sides = EmptyMap,
              !.edges_on_start = EmptyMap, !.edges_on_end = EmptyMap]

\* build_node_indexes_no_init_size(), from node i on
RECURSIVE build_node_indexes(_, _)
build_node_indexes(S, i) ==
    IF i > Len(S.node) THEN S
    ELSE build_node_indexes([S EXCEPT !.node_by_id = PutKey(@, S.node[i].id, i)], i + 1)

\* build_edge_indexes_no_init_size(), from edge i on
RECURSIVE build_edge_indexes(_, _)
build_edge_indexes(S, i) ==
    IF i > Len(S.edge) THEN S
    ELSE build_edge_indexes(index_edge_by_node_sides(S, S.edge[i], i), i + 1)

\* rebuild_indexes(); no path is embedded in the graphs it is called on here
rebuild_indexes(S) == build_edge_indexes(build_node_indexes(clear_indexes(S), 1), 1)

\* the lambda of the edge loop of increment_node_ids on the edge at index i
increment_edge_ids(S, i, increment) ==
    [S EXCEPT !.edge[i].from = @ + increment, !.edge[i].to = @ + increment]

idle_thread == [pc |-> "idle", item |-> 0, read |-> 0, holds |-> {}]

Incrementing == last.op = "increment_node_ids" /\ ~last.out[1].done

\* increment_node_ids(increment) is called and the team of threads starts
IncrementNodeIds ==
    \E increment \in {1, 2} :
        /\ Running
        /\ last.op # "increment_node_ids"
        /\ graph_node # <<>>
        /\ Becomes(St)
        /\ Call("increment_node_ids", <<increment>>,
                <<[next |-> 1, completed |-> 0, done |-> FALSE,
                   edge_taken |-> {}, edge_completed |-> 0,
                   threads |-> [t \in 1..NumThreads |-> idle_thread]]>>)

\* a thread takes the next node and enters the lambda
TakeNode ==
    /\ Incrementing
    /\ last.out[1].next <= Len(graph_node)
    /\ \E t \in 1..NumThreads :
        /\ last.out[1].threads[t].pc = "idle"
        /\ Becomes(St)
        /\ last' = [last EXCEPT !.out[1].next = @ + 1,
                                !.out[1].threads[t].pc = "lambda",
                                !.out[1].threads[t].item = last.out[1].next]

\* the lambda: n->set_id(n->id() + increment), then the read of completed
SetId ==
    /\ Incrementing
    /\ \E t \in 1..NumThreads :
        /\ last.out[1].threads[t].pc = "lambda"
        /\ Becomes([St EXCEPT !.node[last.out[1].threads[t].item].id = @ + last.args[1]])
        /\ last' = [last EXCEPT !.out[1].threads[t].pc = "count",
                                !.out[1].threads[t].read = last.out[1].completed]

\* the write of completed++
CountNode ==
    /\ Incrementing
    /\ \E t \in 1..NumThreads :
        /\ last.out[1].threads[t].pc = "count"
        /\ Becomes(St)
        /\ last' = [last EXCEPT !.out[1].completed = last.out[1].threads[t].read + 1,
                                !.out[1].threads[t] = idle_thread]

\* paths.increment_node_ids(increment): every mapping names its node by the
\* new id
paths_increment_node_ids(ps, increment) ==
    [name \in DOMAIN ps |->
        [i \in 1..Len(ps[name]) |-> [ps[name][i] EXCEPT !.node_id = @ + increment]]]

\* the team of the node loop has joined: every node is taken and no thread is in
\* that loop
NodeLoopJoined ==
    /\ last.out[1].next > Len(graph_node)
    /\ \A t \in 1..NumThreads : last.out[1].threads[t].pc \notin {"lambda", "count"}

\* a thread of the second team takes an edge and enters the lambda
TakeEdge ==
    /\ Incrementing
    /\ NodeLoopJoined
    /\ \E t \in 1..NumThreads, i \in (1..Len(graph_edge)) \ last.out[1].edge_taken :
        /\ last.out[1].threads[t].pc = "idle"
        /\ Becomes(St)
        /\ last' = [last EXCEPT !.out[1].edge_taken = @ \cup {i},
                                !.out[1].threads[t].pc = "edge_lambda",
                                !.out[1].threads[t].item = i]

\* the lambda on the edge: set_from and set_to, then the read of completed
SetEdge ==
    /\ Incrementing
    /\ \E t \in 1..NumThreads :
        /\ last.out[1].threads[t].pc = "edge_lambda"
        /\ Becomes(increment_edge_ids(St, last.out[1].threads[t].item, last.args[1]))
        /\ last' = [last EXCEPT !.out[1].threads[t].pc = "edge_count",
                                !.out[1].threads[t].read = last.out[1].edge_completed]

\* the write of completed++ of the edge loop
CountEdge ==
    /\ Incrementing
    /\ \E t \in 1..NumThreads :
        /\ last.out[1].threads[t].pc = "edge_count"
        /\ Becomes(St)
        /\ last' = [last EXCEPT !.out[1].edge_completed = last.out[1].threads[t].read + 1,
                                !.out[1].threads[t] = idle_thread]

\* the second team has joined: rebuild_indexes, the ids of the mappings and the
\* return
FinishIncrement ==
    LET Renamed(S) == [S EXCEPT !.paths = paths_increment_node_ids(@, last.args[1])]
    IN /\ Incrementing
       /\ last.out[1].next > Len(graph_node)
       /\ last.out[1].edge_taken = 1..Len(graph_edge)
       /\ \A t \in 1..NumThreads : last.out[1].threads[t].pc = "idle"
       /\ Becomes(Renamed(rebuild_indexes(St)))
       /\ last' = [last EXCEPT !.out[1].done = TRUE]

NextParallel ==
    \/ last.op # "increment_node_ids" /\ CreateNode
    \/ last.op # "increment_node_ids" /\ CreateEdge
    \/ last.op # "increment_node_ids" /\ AppendMapping
    \/ IncrementNodeIds
    \/ TakeNode
    \/ SetId
    \/ CountNode
    \/ TakeEdge
    \/ SetEdge
    \/ CountEdge
    \/ FinishIncrement

SpecParallel == Init /\ [][NextParallel]_vars

\* ------------------------------------------------------------------ phase unfolder
\* PhaseUnfolder is declared in phase_unfolder.hpp; its member functions are not in the
\* sources at hand and are modelled from the description of the algorithm: complement
\* components, border nodes, the search for supported walks, their canonical
\* orientation, and the duplication of the inner nodes. The nodes and edges are written
\* to the graph with create_node and create_edge. The original graph has the nodes
\* 1..MaxPhaseId, each with the sequence of SeqInputs; a haplotype is a walk over
\* distinct nodes, read forward from the lower of its two end nodes, and the index
\* supports a walk and its reverse.

MaxPhaseId == 4
MaxHaplotypes == 2

HaplotypeWalks ==
    UNION {{h \in [1..n -> 1..MaxPhaseId] :
                /\ \A i, j \in 1..n : i # j => h[i] # h[j]
                /\ h[1] < h[n]} :
              n \in 2..MaxPhaseId}

\* the sets of at most k haplotypes
RECURSIVE HaplotypeSets(_)
HaplotypeSets(k) ==
    IF k = 0 THEN {{}}
    ELSE HaplotypeSets(k - 1)
         \cup {H \cup {h} : H \in HaplotypeSets(k - 1), h \in HaplotypeWalks}

HaplotypeIndexes == HaplotypeSets(MaxHaplotypes) \ {{}}

\* the part of a sequence s that starts after k elements of h
IsSubwalk(s, h) ==
    \E k \in 0..(Len(h) - Len(s)) : \A i \in 1..Len(s) : h[k + i] = s[i]

walk_ids(walk) == [i \in 1..Len(walk) |-> walk[i][1]]

\* the walk in the other orientation
reverse_walk(walk) ==
    [i \in 1..Len(walk) |-> <<walk[Len(walk) + 1 - i][1], ~walk[Len(walk) + 1 - i][2]>>]

\* the haplotype index supports the walk: a haplotype goes through it, either way
gbwt_contains(haplotypes, walk) ==
    \/ /\ \A i \in 1..Len(walk) : ~walk[i][2]
       /\ \E h \in haplotypes : IsSubwalk(walk_ids(walk), h)
    \/ /\ \A i \in 1..Len(walk) : walk[i][2]
       /\ \E h \in haplotypes : IsSubwalk(walk_ids(reverse_walk(walk)), h)

\* the edges of the index that the input graph does not have
complement_edges(S, haplotypes) ==
    {e \in UNION {{<<h[i], h[i + 1]>> : i \in 1..(Len(h) - 1)} : h \in haplotypes} :
        get_edge(S, NodeSide(e[1], TRUE), NodeSide(e[2], FALSE)) = 0}

\* the edges joined to an edge of comp by shared endpoints
RECURSIVE grow_component(_, _)
grow_component(edges, comp) ==
    LET more == {e \in edges : \E f \in comp : {e[1], e[2]} \cap {f[1], f[2]} # {}}
    IN IF more \subseteq comp THEN comp ELSE grow_component(edges, comp \cup more)

\* complement_components(graph): the complement split into disjoint components
complement_components(S, haplotypes) ==
    {grow_component(complement_edges(S, haplotypes), {e}) :
        e \in complement_edges(S, haplotypes)}

component_nodes(comp) == {e[1] : e \in comp} \cup {e[2] : e \in comp}

\* the border of a component: its nodes that the input graph has
border_nodes(S, comp) == {n \in component_nodes(comp) : has_node(S, n)}

\* the handles the search can go to from the end of a walk
extend_state(comp, haplotypes, walk) ==
    LET at == walk[Len(walk)]
    IN {g \in component_nodes(comp) \X BOOLEAN :
          /\ g[2] = at[2]
          /\ (IF at[2] THEN <<g[1], at[1]>> ELSE <<at[1], g[1]>>) \in comp
          /\ gbwt_contains(haplotypes, Append(walk, g))}

\* generate_paths: the supported walks from the given walk on that end at the border
\* or cannot be extended
RECURSIVE generate_paths(_, _, _, _)
generate_paths(comp, haplotypes, border, walk) ==
    IF Len(walk) >= 2 /\ walk[Len(walk)][1] \in border THEN {walk}
    ELSE IF extend_state(comp, haplotypes, walk) = {}
         THEN (IF Len(walk) >= 2 THEN {walk} ELSE {})
         ELSE UNION {generate_paths(comp, haplotypes, border, Append(walk, g)) :
                        g \in extend_state(comp, haplotypes, walk)}

\* gbwt::Node::encode
encode_walk(walk) == [i \in 1..Len(walk) |-> 2 * walk[i][1] + (IF walk[i][2] THEN 1 ELSE 0)]

\* operator< of std::vector
LexLess(a, b) ==
    \/ \E k \in 1..Len(a) :
          /\ k <= Len(b)
          /\ \A i \in 1..(k - 1) : a[i] = b[i]
          /\ a[k] < b[k]
    \/ Len(a) < Len(b) /\ \A i \in 1..Len(a) : a[i] = b[i]

\* insert_path: the walk in its canonical orientation
insert_path(walk) ==
    IF LexLess(encode_walk(reverse_walk(walk)), encode_walk(walk))
    THEN reverse_walk(walk) ELSE walk

\* the walks of a component, as the set paths holds them
component_paths(comp, haplotypes, border) ==
    {insert_path(w) :
        w \in UNION {generate_paths(comp, haplotypes, border, <<<<b, o>>>>) :
                        b \in border, o \in BOOLEAN}}

\* the iteration order of a std::set of walks
RECURSIVE SortedWalks(_)
SortedWalks(ws) ==
    IF ws = {} THEN <<>>
    ELSE LET m == CHOOSE x \in ws :
                      \A y \in ws \ {x} : LexLess(encode_walk(x), encode_walk(y))
         IN <<m>> \o SortedWalks(ws \ {m})

\* the ids of the nodes of an unfolded walk: a border node keeps its id, every other
\* node gets the next id
RECURSIVE unfolded_ids(_, _, _, _)
unfolded_ids(walk, border, i, next_node) ==
    IF i > Len(walk) THEN <<>>
    ELSE IF walk[i][1] \in border
         THEN <<walk[i][1]>> \o unfolded_ids(walk, border, i + 1, next_node)
         ELSE <<next_node>> \o unfolded_ids(walk, border, i + 1, next_node + 1)

\* the duplicated nodes of one walk are created
RECURSIVE unfold_nodes(_, _, _, _, _)
unfold_nodes(U, walk, border, ids, i) ==
    IF i > Len(walk) THEN U
    ELSE IF walk[i][1] \in border THEN unfold_nodes(U, walk, border, ids, i + 1)
    ELSE unfold_nodes([U EXCEPT
                         !.graph = create_node_id(@, CHOOSE seq \in SeqInputs : TRUE, ids[i]),
                         !.next_node = ids[i] + 1,
                         !.original = PutKey(@, ids[i], walk[i][1])],
                      walk, border, ids, i + 1)

\* the edges of one walk are created
RECURSIVE unfold_edges(_, _, _, _)
unfold_edges(U, walk, ids, i) ==
    IF i >= Len(walk) THEN U
    ELSE unfold_edges([U EXCEPT !.graph = create_edge(@, ids[i], ids[i + 1],
                                                      walk[i][2], walk[i + 1][2])],
                      walk, ids, i + 1)

RECURSIVE unfold_walks(_, _, _, _)
unfold_walks(U, walks, border, k) ==
    IF k > Len(walks) THEN U
    ELSE LET ids == unfolded_ids(walks[k], border, 1, U.next_node)
         IN unfold_walks(unfold_edges(unfold_nodes(U, walks[k], border, ids, 1),
                                      walks[k], ids, 1),
                         walks, border, k + 1)

\* unfold_component(component, graph, unfolded)
unfold_component(U, comp, haplotypes, border) ==
    unfold_walks(U, SortedWalks(component_paths(comp, haplotypes, border)), border, 1)

\* the components in the order of their least edges
RECURSIVE SortedComponents(_)
SortedComponents(comps) ==
    IF comps = {} THEN <<>>
    ELSE LET m == CHOOSE c \in comps :
                      \E e \in c : \A d \in comps : \A f \in d :
                          e = f \/ LexLess(e, f)
         IN <<m>> \o SortedComponents(comps \ {m})

RECURSIVE unfold_components(_, _, _, _, _)
unfold_components(U, S, comps, haplotypes, k) ==
    IF k > Len(comps) THEN U
    ELSE unfold_components(unfold_component(U, comps[k], haplotypes,
                                            border_nodes(S, comps[k])),
                           S, comps, haplotypes, k + 1)

\* PhaseUnfolder::unfold(graph): graph is the graph unfolded, next_node the id of the
\* next duplicated node, original the node each duplicated node is a copy of
phase_unfold(S, haplotypes, next_node) ==
    unfold_components([graph |-> S, next_node |-> next_node, original |-> EmptyMap],
                      S, SortedComponents(complement_components(S, haplotypes)),
                      haplotypes, 1)

\* unfold(graph) with an unfolder made over the original graph, next_node its
\* max_node_id() + 1
PhaseUnfold ==
    \E haplotypes \in HaplotypeIndexes :
        LET Do(U) == /\ Becomes(U.graph)
                     /\ Call("phase_unfold", <<haplotypes>>,
                             <<U.original, complement_edges(St, haplotypes),
                               DOMAIN node_by_id>>)
        IN /\ Running
           /\ last.op # "phase_unfold"
           /\ \A i \in 1..Len(graph_node) : graph_node[i].id <= MaxPhaseId
           /\ Do(phase_unfold(St, haplotypes, MaxPhaseId + 1))

NextPhase ==
    \/ last.op # "phase_unfold" /\ CreateNodeId
    \/ last.op # "phase_unfold" /\ CreateEdgeForward
    \/ PhaseUnfold

SpecPhase == Init /\ [][NextPhase]_vars

\* --------------------------------------------------------------- normalize
\* The sets of NodeTraversals that unchop and simplify_siblings iterate are
\* ordered by the addresses of the nodes. A traversal in such a set is kept
\* here as <<node id, backward>>, and order gives every node id the rank of
\* the address of its node among the addresses of all the nodes of the call:
\* two nodes are compared only while both are alive, so that every placement
\* of the nodes in memory is one such ranking.

\* the sizes of the graphs that are normalized, and the largest max_iter
MaxNormNodes == 3
MaxNormEdges == 2
MaxIter == 3
\* the mappings of the path of a graph that is normalized
MaxNormMappings == 1
\* the largest id a node of a call of normalize has
MaxNormId == 8

\* sides_to(NodeSide)
sides_to(S, side) ==
    {NodeSide(S.edge[e].from, ~S.edge[e].from_start) :
        e \in {edges_of(S, side[1])[i] :
                   i \in {j \in 1..Len(edges_of(S, side[1])) :
                              LET edge == S.edge[edges_of(S, side[1])[j]]
                              IN edge.to = side[1] /\ edge.to_end = side[2]}}}

\* sides_from(NodeSide)
sides_from(S, side) ==
    {NodeSide(S.edge[e].to, S.edge[e].to_end) :
        e \in {edges_of(S, side[1])[i] :
                   i \in {j \in 1..Len(edges_of(S, side[1])) :
                              LET edge == S.edge[edges_of(S, side[1])[j]]
                              IN edge.from = side[1] /\ edge.from_start # side[2]}}}

\* siblings_to(NodeTraversal)
siblings_to(S, trav) ==
    UNION {{<<s2[1], s2[2]>> : s2 \in sides_from(S, s1)} :
               s1 \in sides_to(S, NodeSide(trav[1], trav[2]))} \ {trav}

\* siblings_from(NodeTraversal)
siblings_from(S, trav) ==
    UNION {{<<s2[1], ~s2[2]>> : s2 \in sides_to(S, s1)} :
               s1 \in sides_from(S, NodeSide(trav[1], ~trav[2]))} \ {trav}

\* full_siblings_to: the siblings with the same inbound sides
full_siblings_to(S, trav) ==
    {sib \in siblings_to(S, trav) :
        sides_to(S, NodeSide(sib[1], sib[2])) = sides_to(S, NodeSide(trav[1], trav[2]))}

\* full_siblings_from: the siblings with the same outbound sides
full_siblings_from(S, trav) ==
    {sib \in siblings_from(S, trav) :
        sides_from(S, NodeSide(sib[1], ~sib[2])) = sides_from(S, NodeSide(trav[1], ~trav[2]))}

\* transitive_sibling_sets: the sets whose members are in one set only
transitive_sibling_sets(sibs) ==
    LET membership(node) ==
            Cardinality({p \in UNION {{<<s, t>> : t \in s} : s \in sibs} : p[2][1] = node})
    IN {s \in sibs : \A t \in s : membership(t[1]) <= 1}

\* identically_oriented_sibling_sets: all forward or all reverse
identically_oriented_sibling_sets(sibs) ==
    {s \in sibs : (\A t \in s : t[2]) \/ (\A t \in s : ~t[2])}

\* the rank of the address of a node
address(order, id) == order[id]

\* NodeTraversal::operator< over <<node id, backward>>
IdTravLess(order, a, b) ==
    address(order, a[1]) < address(order, b[1]) \/ (a[1] = b[1] /\ ~a[2] /\ b[2])

\* the iteration order of a std::set of NodeTraversals
RECURSIVE SortedIdTravs(_, _)
SortedIdTravs(order, ts) ==
    IF ts = {} THEN <<>>
    ELSE LET m == CHOOSE x \in ts : \A y \in ts \ {x} : IdTravLess(order, x, y)
         IN <<m>> \o SortedIdTravs(order, ts \ {m})

\* operator< of a list or a set of NodeTraversals: lexicographic
RECURSIVE TravListLess(_, _, _)
TravListLess(order, a, b) ==
    IF b = <<>> THEN FALSE
    ELSE IF a = <<>> THEN TRUE
    ELSE IF Head(a) # Head(b) THEN IdTravLess(order, Head(a), Head(b))
    ELSE TravListLess(order, Tail(a), Tail(b))

\* the iteration order of a std::set of lists of NodeTraversals
RECURSIVE SortedTravLists(_, _)
SortedTravLists(order, ls) ==
    IF ls = {} THEN <<>>
    ELSE LET m == CHOOSE x \in ls : \A y \in ls \ {x} : TravListLess(order, x, y)
         IN <<m>> \o SortedTravLists(order, ls \ {m})

\* the iteration order of a std::set of NodeSides
RECURSIVE SortedSides(_)
SortedSides(sides) ==
    IF sides = {} THEN <<>>
    ELSE LET m == CHOOSE x \in sides : \A y \in sides \ {x} : SideLess(x, y)
         IN <<m>> \o SortedSides(sides \ {m})

\* the smallest of the sizes of the sequences
RECURSIVE min_seq_size(_)
min_seq_size(seqs) ==
    IF Len(seqs) = 1 THEN Len(seqs[1])
    ELSE LET rest == min_seq_size(Tail(seqs))
         IN IF Len(seqs[1]) < rest THEN Len(seqs[1]) ELSE rest

\* the amount of sharing at the start, counted from i characters on
RECURSIVE shared_start(_, _)
shared_start(seqs, i) ==
    IF i < min_seq_size(seqs) /\ \A k \in 1..Len(seqs) : seqs[k][i + 1] = seqs[1][i + 1]
    THEN shared_start(seqs, i + 1)
    ELSE i

\* the amount of sharing at the end, counted from i characters on
RECURSIVE shared_end(_, _)
shared_end(seqs, i) ==
    IF i < min_seq_size(seqs)
       /\ \A k \in 1..Len(seqs) : seqs[k][Len(seqs[k]) - i] = seqs[1][Len(seqs[1]) - i]
    THEN shared_end(seqs, i + 1)
    ELSE i

\* the sequences of the nodes of a sibling set, in the order of the set
sibling_seqs(S, sibs) == [k \in 1..Len(sibs) |-> S.node[get_node(S, sibs[k][1])].sequence]

\* paths.divide_mapping(m, offset) for every mapping on a sibling, and
\* paths.reassign_node(new_id, piece) for one of the two pieces: the pieces
\* take the place of the mapping in its path, those of a reverse mapping the
\* second one first
divide_sibling_mappings(ps, id, offset, new_id, second) ==
    [name \in DOMAIN ps |->
        Flatten([i \in 1..Len(ps[name]) |->
            IF ps[name][i].node_id # id THEN <<ps[name][i]>>
            ELSE LET mpts == cut_mapping(ps[name][i], offset)
                     pieces == IF second
                               THEN <<mpts[1], [mpts[2] EXCEPT !.node_id = new_id]>>
                               ELSE <<[mpts[1] EXCEPT !.node_id = new_id], mpts[2]>>
                 IN IF ps[name][i].is_reverse THEN Reverse(pieces) ELSE pieces])]

\* the sequence of every sibling loses count characters at the start or
\* at the end, from sibling k on, and its mappings are divided: at the start
\* at the count and the second piece goes to the new node, at the end at the
\* size the sequence is left with and the first piece goes to the new node
RECURSIVE cut_siblings(_, _, _, _, _, _)
cut_siblings(S, sibs, count, at_start, k, new_id) ==
    IF k > Len(sibs) THEN S
    ELSE LET ptr == get_node(S, sibs[k][1])
             rest == IF at_start THEN substr(S.node[ptr].sequence, count, Len(S.node[ptr].sequence))
                     ELSE substr(S.node[ptr].sequence, 0, Len(S.node[ptr].sequence) - count)
         IN cut_siblings([S EXCEPT !.node[ptr].sequence = rest,
                                   !.paths = divide_sibling_mappings(
                                                 @, sibs[k][1],
                                                 IF at_start THEN count ELSE Len(rest),
                                                 new_id, at_start)],
                         sibs, count, at_start, k + 1, new_id)

\* create_edge(side, other) for every side of a set, or create_edge(other, side)
RECURSIVE create_edges_with(_, _, _, _)
create_edges_with(S, sides, other, other_first) ==
    IF sides = <<>> THEN S
    ELSE create_edges_with(IF other_first THEN create_edge_sides(S, other, Head(sides))
                           ELSE create_edge_sides(S, Head(sides), other),
                           Tail(sides), other, other_first)

\* destroy_edge(side, other) for every side of a set
RECURSIVE destroy_edges_with(_, _, _)
destroy_edges_with(S, sides, other) ==
    IF sides = <<>> THEN S
    ELSE destroy_edges_with(destroy_edge_sides(S, Head(sides), other), Tail(sides), other)

\* the old nodes are disconnected from their common parents and connected
\* to the new node, from sibling k on
RECURSIVE reconnect_to_siblings(_, _, _, _)
reconnect_to_siblings(S, sibs, new_right_side, k) ==
    IF k > Len(sibs) THEN S
    ELSE LET old_side == NodeSide(sibs[k][1], sibs[k][2])
         IN reconnect_to_siblings(
                create_edge_sides(
                    destroy_edges_with(S, SortedSides(sides_to(S, old_side)), old_side),
                    new_right_side, old_side),
                sibs, new_right_side, k + 1)

\* the round of simplify_to_siblings for one set of siblings
simplify_to_sibling_set(S, sibs) ==
    LET shared == shared_start(sibling_seqs(S, sibs), 0)
        seq == substr(sibling_seqs(S, sibs)[1], 0, shared)
        Connect(C) ==
            reconnect_to_siblings(
                create_edges_with(C, SortedSides(sides_to(C, NodeSide(sibs[1][1], sibs[1][2]))),
                                  NodeSide(created_id(C), FALSE), FALSE),
                sibs, NodeSide(created_id(C), TRUE), 1)
    IN IF shared = 0 THEN S
       ELSE LET Cut(C) == cut_siblings(C, sibs, shared, TRUE, 1, created_id(C))
            IN Connect(Cut(create_node(S, seq)))

\* simplify_to_siblings(to_sibs), from set k on
RECURSIVE simplify_to_siblings(_, _, _)
simplify_to_siblings(S, to_sibs, k) ==
    IF k > Len(to_sibs) THEN [S EXCEPT !.paths = compact_ranks(@)]
    ELSE simplify_to_siblings(simplify_to_sibling_set(S, to_sibs[k]), to_sibs, k + 1)

\* the old nodes are disconnected from their common children and connected
\* to the new node, from sibling k on
RECURSIVE reconnect_from_siblings(_, _, _, _)
reconnect_from_siblings(S, sibs, new_left_side, k) ==
    IF k > Len(sibs) THEN S
    ELSE LET old_side == NodeSide(sibs[k][1], ~sibs[k][2])
         IN reconnect_from_siblings(
                create_edge_sides(
                    destroy_edges_with(S, SortedSides(sides_from(S, old_side)), old_side),
                    old_side, new_left_side),
                sibs, new_left_side, k + 1)

\* the round of simplify_from_siblings for one set of siblings
simplify_from_sibling_set(S, sibs) ==
    LET shared == shared_end(sibling_seqs(S, sibs), 0)
        first == sibling_seqs(S, sibs)[1]
        seq == substr(first, Len(first) - shared, Len(first))
        Connect(C) ==
            reconnect_from_siblings(
                create_edges_with(C, SortedSides(sides_from(C, NodeSide(sibs[1][1], ~sibs[1][2]))),
                                  NodeSide(created_id(C), TRUE), TRUE),
                sibs, NodeSide(created_id(C), FALSE), 1)
    IN IF shared = 0 THEN S
       ELSE LET Cut(C) == cut_siblings(C, sibs, shared, FALSE, 1, created_id(C))
            IN Connect(Cut(create_node(S, seq)))

\* simplify_from_siblings(from_sibs), from set k on
RECURSIVE simplify_from_siblings(_, _, _)
simplify_from_siblings(S, from_sibs, k) ==
    IF k > Len(from_sibs) THEN [S EXCEPT !.paths = compact_ranks(@)]
    ELSE simplify_from_siblings(simplify_from_sibling_set(S, from_sibs[k]), from_sibs, k + 1)

\* create_edge(from, to, from_start, to_end) for every pair of a neighbour on
\* the start and a neighbour on the end
RECURSIVE create_forwarding_edges(_, _)
create_forwarding_edges(S, es) ==
    IF es = <<>> THEN S
    ELSE create_forwarding_edges(
             create_edge(S, Head(es)[1][1], Head(es)[2][1], Head(es)[1][2], Head(es)[2][2]),
             Tail(es))

\* remove_node_forwarding_edges(Node*)
remove_node_forwarding_edges(S, ptr) ==
    LET id == S.node[ptr].id
        edges_to_create ==
            {<<edges_start(S, id)[i], edges_end(S, id)[j]>> :
                 <<i, j>> \in (1..Len(edges_start(S, id))) \X (1..Len(edges_end(S, id)))}
        Unmap(C) == [C EXCEPT !.paths = [n \in DOMAIN @ |-> SelectSeqNotOn(@[n], {id})]]
    IN destroy_node(Unmap(create_forwarding_edges(S, SortedPairs(edges_to_create))), ptr)

\* the removals of remove_null_nodes_forwarding_edges, the nodes named by
\* their ids
RECURSIVE remove_nodes_forwarding_edges(_, _)
remove_nodes_forwarding_edges(S, to_remove) ==
    IF to_remove = <<>> THEN S
    ELSE remove_nodes_forwarding_edges(
             remove_node_forwarding_edges(S, get_node(S, Head(to_remove))),
             Tail(to_remove))

\* remove_null_nodes_forwarding_edges()
remove_null_nodes_forwarding_edges(S) ==
    LET null == SelectSeq(S.node, LAMBDA n : Len(n.sequence) = 0)
        Compact(C) == [C EXCEPT !.paths = compact_ranks(@)]
    IN Compact(remove_nodes_forwarding_edges(S, [i \in 1..Len(null) |-> null[i].id]))

\* the sibling sets of more than one traversal that simplify_siblings lists
sibling_sets(S, to) ==
    {sibs \in {(IF to THEN full_siblings_to(S, <<S.node[i].id, FALSE>>)
                ELSE full_siblings_from(S, <<S.node[i].id, FALSE>>))
               \cup {<<S.node[i].id, FALSE>>} : i \in 1..Len(S.node)} :
        Cardinality(sibs) > 1}

\* the sets that are simplified, in the order they are iterated
simplified_sets(S, order, to) ==
    SortedTravLists(order,
        {SortedIdTravs(order, s) :
            s \in identically_oriented_sibling_sets(
                      transitive_sibling_sets(sibling_sets(S, to)))})

\* simplify_siblings()
simplify_siblings(S, order) ==
    LET To(C) == remove_null_nodes_forwarding_edges(
                     simplify_to_siblings(C, simplified_sets(C, order, TRUE), 1))
        From(C) == remove_null_nodes_forwarding_edges(
                       simplify_from_siblings(C, simplified_sets(C, order, FALSE), 1))
    IN From(To(S))

\* simple_components going left of l: the traversals are pushed on the front of c
RECURSIVE components_left(_, _, _, _)
components_left(S, seen, l, c) ==
    LET prev == nodes_prev(S, l)
    IN IF Len(prev) # 1 THEN [seen |-> seen, c |-> c]
       ELSE IF Len(nodes_next(S, prev[1])) # 1 THEN [seen |-> seen, c |-> c]
       ELSE IF ~nodes_are_perfect_path_neighbors(S, prev[1], l) THEN [seen |-> seen, c |-> c]
       ELSE IF prev[1][1] \in seen THEN [seen |-> seen, c |-> c]
       ELSE components_left(S, seen \cup {prev[1][1]}, prev[1], <<prev[1]>> \o c)

\* simple_components going right of r: the traversals are pushed on the back of c
RECURSIVE components_right(_, _, _, _)
components_right(S, seen, r, c) ==
    LET next == nodes_next(S, r)
    IN IF Len(next) # 1 THEN [seen |-> seen, c |-> c]
       ELSE IF Len(nodes_prev(S, next[1])) # 1 THEN [seen |-> seen, c |-> c]
       ELSE IF ~nodes_are_perfect_path_neighbors(S, r, next[1]) THEN [seen |-> seen, c |-> c]
       ELSE IF next[1][1] \in seen THEN [seen |-> seen, c |-> c]
       ELSE components_right(S, seen \cup {next[1][1]}, next[1], Append(c, next[1]))

\* simple_components(min_size), from node i of the graph on
RECURSIVE simple_components_from(_, _, _, _, _)
simple_components_from(S, min_size, i, seen, components) ==
    IF i > Len(S.node) THEN components
    ELSE IF i \in seen THEN simple_components_from(S, min_size, i + 1, seen, components)
    ELSE LET Right(L) == components_right(S, L.seen, <<i, FALSE>>, Append(L.c, <<i, FALSE>>))
             Add(R) == simple_components_from(S, min_size, i + 1, R.seen,
                           IF Len(R.c) >= min_size THEN components \cup {R.c}
                           ELSE components)
         IN Add(Right(components_left(S, seen \cup {i}, <<i, FALSE>>, <<>>)))

simple_components(S, min_size) == simple_components_from(S, min_size, 1, {}, {})

simple_multinode_components(S) == simple_components(S, 2)

\* the concat_nodes of unchop, from component k on; the traversals of a
\* component name their nodes by id
RECURSIVE unchop_from(_, _, _)
unchop_from(U, comps, k) ==
    IF k > Len(comps) \/ ~U.ok THEN U
    ELSE LET nodes == [i \in 1..Len(comps[k]) |->
                          <<get_node(U.graph, comps[k][i][1]), comps[k][i][2]>>]
         IN IF concat_nodes_asserts(U.graph, nodes)
            THEN unchop_from([U EXCEPT !.graph = concat_nodes(U.graph, nodes)], comps, k + 1)
            ELSE [U EXCEPT !.ok = FALSE]

\* unchop(): ok is false where an assertion of concat_nodes fails
unchop(S, order) ==
    LET by_id(c) == [i \in 1..Len(c) |-> <<trav_id(S, c[i]), c[i][2]>>]
        Compact(U) == [U EXCEPT !.graph.paths = compact_ranks(@)]
    IN Compact(unchop_from([graph |-> S, ok |-> TRUE],
                           SortedTravLists(order,
                               {by_id(c) : c \in simple_multinode_components(S)}),
                           1))

\* length()
RECURSIVE length_from(_, _)
length_from(S, i) ==
    IF i > Len(S.node) THEN 0 ELSE Len(S.node[i].sequence) + length_from(S, i + 1)

length(S) == length_from(S, 1)

\* one round of the loop of normalize
normalize_round(S, order) ==
    LET Compact(C) == [C EXCEPT !.paths = compact_ranks(@)]
        Second(C) == LET Done(U) == [U EXCEPT !.graph = Compact(@)]
                     IN Done(unchop(Compact(simplify_siblings(C, order)), order))
        First(U) == IF U.ok THEN Second(U.graph) ELSE U
    IN First(unchop(flip_doubly_reversed_edges(S), order))

\* the loop of normalize: rounds lists, for every round made, the length of
\* the graph before it and after it
RECURSIVE normalize_loop(_, _, _, _, _, _)
normalize_loop(S, max_iter, order, iter, last_len, rounds) ==
    LET Check(R) ==
            LET curr_len == length(R.graph)
                made == Append(rounds, <<length(S), curr_len>>)
            IN IF ~R.ok THEN [graph |-> R.graph, ok |-> FALSE, rounds |-> made]
               ELSE IF max_iter > 1 /\ curr_len = last_len
               THEN [graph |-> R.graph, ok |-> TRUE, rounds |-> made]
               ELSE IF iter + 1 < max_iter
               THEN normalize_loop(R.graph, max_iter, order, iter + 1,
                                   IF max_iter > 1 THEN curr_len ELSE last_len, made)
               ELSE [graph |-> R.graph, ok |-> TRUE, rounds |-> made]
    IN Check(normalize_round(S, order))

\* a variant that starts the loop without the length of the graph
normalize_without_first_length(S, max_iter, order) ==
    normalize_loop(S, max_iter, order, 0, 0, <<>>)

\* normalize(max_iter)
normalize(S, max_iter, order) ==
    normalize_loop(S, max_iter, order, 0, IF max_iter > 1 THEN length(S) ELSE 0, <<>>)

\* the sequences of the nodes of the graphs that are normalized: the letters
\* are compared for equality only, and the first node has the first sequence
NormSeqInputs == {<<"A", "C">>, <<"A", "G">>}

\* create_node(seq) for a graph that is normalized; the nodes are made before
\* the edges
CreateNodeToNormalize ==
    \E seq \in NormSeqInputs :
        /\ Running
        /\ last.op # "normalize"
        /\ Len(graph_node) = 0 => seq = <<"A", "C">>
        /\ Len(graph_node) < MaxNormNodes
        /\ Len(graph_edge) = 0
        /\ Becomes(create_node(St, seq))
        /\ Call("create_node", <<>>, <<current_id>>)

\* the rank of an edge among the edges of a graph that is normalized
NormEdgeRank(e) ==
    ((e.from * (MaxNormNodes + 1) + e.to) * 2 + (IF e.from_start THEN 1 ELSE 0)) * 2
    + (IF e.to_end THEN 1 ELSE 0)

\* create_edge(from, to, from_start, to_end); the edges are made in the order
\* of their ranks
CreateEdgeToNormalize ==
    \E from \in NodeIds, to \in NodeIds, from_start \in BOOLEAN, to_end \in BOOLEAN :
        LET Do(R) == /\ Len(R.edge) = Len(graph_edge) + 1
                     /\ Len(R.edge) <= MaxNormEdges
                     /\ \A k \in 1..Len(graph_edge) :
                            NormEdgeRank(graph_edge[k]) < NormEdgeRank(R.edge[Len(R.edge)])
                     /\ Becomes(R)
                     /\ Call("create_edge", <<>>, <<TRUE>>)
        IN /\ Running
           /\ last.op # "normalize"
           /\ Do(create_edge(St, from, to, from_start, to_end))

\* paths.append_mapping(name, mapping) for a graph that is normalized: a
\* full-length mapping on a node, after the edges are made
AppendMappingToNormalize ==
    \E name \in PathNames, id \in NodeIds, is_reverse \in BOOLEAN :
        /\ Running
        /\ last.op # "normalize"
        /\ has_node(St, id)
        /\ Len(graph_edge) = MaxNormEdges
        /\ Len(IF name \in DOMAIN paths THEN paths[name] ELSE <<>>) < MaxNormMappings
        /\ Becomes([St EXCEPT !.paths = append_mapping(@, name,
                        Mapping(id, is_reverse,
                                Len(graph_node[node_by_id[id]].sequence), 0))])
        /\ Call("append_mapping", <<>>, <<>>)

\* the placements of the nodes in memory normalize is run with: the
\* addresses of the nodes of the graph rise or fall in the order of the node
\* list, and the nodes the call makes lie above them in the order they are
\* made, or below them in the opposite order
normalize_orders(S) ==
    {[id \in 1..MaxNormId |->
         IF has_node(S, id)
         THEN (IF base = "rising" THEN S.node_by_id[id] ELSE 0 - S.node_by_id[id])
         ELSE IF fresh = "above" THEN Len(S.node) + id ELSE 0 - (Len(S.node) + id)] :
        base \in {"rising", "falling"}, fresh \in {"above", "below"}}

\* normalize(max_iter): the outcome is whether the call ran to its end and
\* the lengths of the graph before and after each of its rounds
Normalize ==
    \E max_iter \in 0..MaxIter, order \in normalize_orders(St) :
        LET Do(R) == /\ Becomes(R.graph)
                     /\ Call("normalize", <<max_iter>>, <<R.ok, R.rounds>>)
        IN /\ Running
           /\ last.op # "normalize"
           /\ Len(graph_node) > 0
           /\ Do(normalize(St, max_iter, order))

NextNormalize ==
    \/ CreateNodeToNormalize
    \/ CreateEdgeToNormalize
    \/ AppendMappingToNormalize
    \/ Normalize

SpecNormalize == Init /\ [][NextNormalize]_vars

\* ------------------------------------------------------------ properties
\* the two sides an edge record joins
EdgeEnds(e) == <<NodeSide(e.from, ~e.from_start), NodeSide(e.to, e.to_end)>>

\* the adjacency list of a side
AdjacencyOf(side) ==
    IF side[2] THEN edges_end(St, side[1]) ELSE edges_start(St, side[1])

\* the entry that stands for side b in the adjacency list of side a
CounterpartEntry(a, b) == <<b[1], IF a[2] THEN b[2] ELSE ~b[2]>>

\* the side an entry of the adjacency list of side a stands for
CounterpartSide(a, entry) == NodeSide(entry[1], IF a[2] THEN entry[2] ELSE ~entry[2])

Occurrences(list, x) == Cardinality({i \in 1..Len(list) : list[i] = x})

EdgesBetween(a, b) ==
    {i \in 1..Len(graph_edge) :
        {EdgeEnds(graph_edge[i])[1], EdgeEnds(graph_edge[i])[2]} = {a, b}}

\* C1: in every state reached by create_node, create_edge, destroy_edge,
\* destroy_node, divide_node and swap_node_id calls, every edge of the graph
\* has exactly one canonical record, keyed by its ordered pair of sides and
\* pointing to it, each of its two sides lists the counterpart entry for the
\* other exactly once, and every canonical record and every adjacency entry
\* belongs to an edge of the graph.
C1_EdgeIndexConsistent ==
    /\ \A i \in 1..Len(graph_edge) :
          LET a == EdgeEnds(graph_edge[i])[1]
              b == EdgeEnds(graph_edge[i])[2]
              keys == {k \in DOMAIN edge_by_sides : {k[1], k[2]} = {a, b}}
          IN /\ Cardinality(keys) = 1
             /\ \A k \in keys : ~SideLess(k[2], k[1]) /\ edge_by_sides[k] = i
             /\ Occurrences(AdjacencyOf(a), CounterpartEntry(a, b)) = 1
             /\ Occurrences(AdjacencyOf(b), CounterpartEntry(b, a)) = 1
    /\ \A k \in DOMAIN edge_by_sides : EdgesBetween(k[1], k[2]) # {}
    /\ \A id \in DOMAIN edges_on_start : \A j \in 1..Len(edges_on_start[id]) :
          EdgesBetween(NodeSide(id, FALSE),
                       CounterpartSide(NodeSide(id, FALSE), edges_on_start[id][j])) # {}
    /\ \A id \in DOMAIN edges_on_end : \A j \in 1..Len(edges_on_end[id]) :
          EdgesBetween(NodeSide(id, TRUE),
                       CounterpartSide(NodeSide(id, TRUE), edges_on_end[id][j])) # {}

\* an inverting self loop and another edge are in the graph after the edges
\* of a node were destroyed and created again under a new id
C1_Witness ==
    /\ last.op = "swap_node_id"
    /\ Len(graph_edge) = 2
    /\ \E i \in 1..Len(graph_edge) :
          /\ graph_edge[i].from = graph_edge[i].to
          /\ graph_edge[i].from_start # graph_edge[i].to_end

\* the largest id of a node of the graph, 0 in the empty graph
LargestId ==
    IF graph_node = <<>> THEN 0
    ELSE CHOOSE m \in {graph_node[i].id : i \in 1..Len(graph_node)} :
             \A i \in 1..Len(graph_node) : graph_node[i].id <= m

IdsInUse == {graph_node[i].id : i \in 1..Len(graph_node)}

StoreVars == <<graph_node, graph_edge, node_by_id, edge_by_sides, edges_on_start,
               edges_on_end, current_id, paths>>

\* C2: every create_node(seq) call returns a node whose id is the largest id
\* in the store at the moment of the call plus one, whatever create_node(seq,
\* id) and destroy_node calls came before, so the id is not one already in use.
C2_AutoIdIsMaxPlusOne ==
    [][last'.op = "create_node" =>
          /\ last'.out[1] = LargestId + 1
          /\ last'.out[1] \notin IdsInUse]_vars

\* C3: a create_node(seq, id) call with id 0 or with the id of a node of the
\* graph fails and leaves the store as it was, so that no id ever has two
\* node records and the index keeps resolving an id to the node created first.
C3_ExplicitIdRejected ==
    [][(/\ last'.op \in {"create_node_id", "create_node_id_assert"}
        /\ (last'.args[1] = 0 \/ last'.args[1] \in IdsInUse))
       => UNCHANGED StoreVars]_vars

\* a path without its mappings on a node
WithoutNode(path, id) ==
    LET Keep(m) == m.node_id # id IN SelectSeq(path, Keep)

\* C4: a destroy_node(id) call removes every mapping on the node from every
\* path and keeps the other mappings in their order, so every mapping left
\* references a node of the store.
C4_DestroyNodeRemovesMappings ==
    [][last'.op = "destroy_node" =>
          /\ DOMAIN paths' = DOMAIN paths
          /\ \A name \in DOMAIN paths :
                paths'[name] = WithoutNode(paths[name], last'.args[1])]_vars

\* C5: in every reachable state, create_edge called for the two sides of an
\* edge of the graph, in either order of the sides, finds that edge and
\* leaves the edge list and every index as they are; and no two edges of the
\* graph join the same pair of sides.
C5_CreateEdgeIdempotent ==
    /\ \A i \in 1..Len(graph_edge) :
          LET a == EdgeEnds(graph_edge[i])[1]
              b == EdgeEnds(graph_edge[i])[2]
          IN /\ get_edge(St, a, b) = i
             /\ get_edge(St, b, a) = i
             /\ create_edge(St, a[1], b[1], ~a[2], b[2]) = St
             /\ create_edge(St, b[1], a[1], ~b[2], a[2]) = St
    /\ \A i \in 1..Len(graph_edge) : \A j \in 1..Len(graph_edge) :
          {EdgeEnds(graph_edge[i])[1], EdgeEnds(graph_edge[i])[2]}
              = {EdgeEnds(graph_edge[j])[1], EdgeEnds(graph_edge[j])[2]} => i = j

\* a create_edge call has just found the edge between two different nodes
\* that it was asked for
C5_Witness ==
    /\ last.op = "create_edge"
    /\ last.out[1]
    /\ \E i \in 1..Len(graph_edge) : graph_edge[i].from # graph_edge[i].to

\* the pairs of sides joined by the edges of a list
SidePairs(edges) ==
    {{EdgeEnds(edges[i])[1], EdgeEnds(edges[i])[2]} : i \in 1..Len(edges)}

\* the counter create_node(seq) draws from is ahead of every id in use
CounterAhead == current_id = 1 \/ current_id > LargestId

\* what a divide_node(id, positions) step that returned parts did to the
\* nodes and the edges
DivideNodePost(id, positions, parts) ==
    LET k == Len(positions)
        original == graph_node[node_by_id[id]]
        Moved(side) ==
            IF side[1] # id THEN side
            ELSE IF side[2] THEN NodeSide(parts[k + 1], TRUE)
            ELSE NodeSide(parts[1], FALSE)
        moved == {{Moved(a) : a \in p} : p \in SidePairs(graph_edge)}
        chain == {{NodeSide(parts[i], TRUE), NodeSide(parts[i + 1], FALSE)} : i \in 1..k}
    IN /\ Len(parts) = k + 1
       /\ \A i \in 1..Len(graph_node') : graph_node'[i].id # id
       /\ Len(graph_node') = Len(graph_node) + k
       /\ \A i \in 1..Len(graph_node) :
             graph_node[i] # original =>
                 \E j \in 1..Len(graph_node') : graph_node'[j] = graph_node[i]
       /\ \A i \in 1..(k + 1) :
             /\ parts[i] \notin IdsInUse
             /\ parts[i] \in DOMAIN node_by_id'
             /\ \A j \in 1..(k + 1) : parts[i] = parts[j] => i = j
       /\ Flatten([i \in 1..(k + 1) |-> graph_node'[node_by_id'[parts[i]]].sequence])
              = original.sequence
       /\ SidePairs(graph_edge') = moved \cup chain
       /\ Len(graph_edge') = Cardinality(moved \cup chain)
       /\ \A i \in 1..k :
             \E j \in 1..Len(graph_edge') :
                 graph_edge'[j] = Edge(parts[i], parts[i + 1], FALSE, FALSE)

\* C6: a divide_node call at k valid offsets removes the node and makes k+1
\* new nodes whose sequences spell the original in order; the edges on the
\* start of the node are on the start of the first piece, those on its end on
\* the end of the last piece (self loops on the matching pieces), piece i is
\* joined to piece i+1 by one forward edge from its end to the next start,
\* and no other edge is added or removed.
C6_DivideNodePieces ==
    [][last'.op = "divide_node" =>
          DivideNodePost(last'.args[1], last'.args[2], last'.out)]_vars

\* the same, for the calls made while the counter is ahead of every id in use
DivideNodePiecesCounterAhead ==
    [][(last'.op = "divide_node" /\ CounterAhead) =>
          DivideNodePost(last'.args[1], last'.args[2], last'.out)]_vars

\* a mapping without its rank
Visit(m) == <<m.node_id, m.is_reverse, m.length>>

\* the sequence a list of mappings spells on a list of nodes indexed by ids
Spelled(path, nodes, index) ==
    Flatten([i \in 1..Len(path) |->
        IF path[i].is_reverse
        THEN reverse_complement(nodes[index[path[i].node_id]].sequence)
        ELSE nodes[index[path[i].node_id]].sequence])

\* what a divide_node(id, positions) step that returned parts did to the paths
DivideMappingsPost(id, positions, parts) ==
    LET k == Len(positions)
        size == Len(graph_node[node_by_id[id]].sequence)
        from == [i \in 1..(k + 1) |-> IF i = 1 THEN 0 ELSE positions[i - 1]]
        to == [i \in 1..(k + 1) |-> IF i = k + 1 THEN size ELSE positions[i]]
        Forward == [i \in 1..(k + 1) |-> <<parts[i], FALSE, to[i] - from[i]>>]
        Backward == [i \in 1..(k + 1) |->
                        <<parts[k + 2 - i], TRUE, to[k + 2 - i] - from[k + 2 - i]>>]
        Expected(path) ==
            Flatten([i \in 1..Len(path) |->
                IF path[i].node_id # id THEN <<Visit(path[i])>>
                ELSE IF path[i].is_reverse THEN Backward ELSE Forward])
    IN /\ DOMAIN paths' = DOMAIN paths
       /\ \A name \in DOMAIN paths :
             /\ [i \in 1..Len(paths'[name]) |-> Visit(paths'[name][i])]
                    = Expected(paths[name])
             /\ (\E i \in 1..Len(paths[name]) : paths[name][i].node_id = id)
                    => \A i \in 1..(k + 1) :
                           /\ parts[i] \in DOMAIN node_by_id'
                           /\ Len(graph_node'[node_by_id'[parts[i]]].sequence)
                                  = to[i] - from[i]
             /\ (\A i \in 1..Len(paths[name]) : paths[name][i].node_id \in DOMAIN node_by_id)
                    => Spelled(paths'[name], graph_node', node_by_id')
                           = Spelled(paths[name], graph_node, node_by_id)

\* C7: a divide_node call at k offsets replaces every mapping on the node, in
\* its place in its path, by k+1 mappings, one on each piece and as long as
\* the piece: first piece to last for a forward mapping, last to first and
\* reverse for a reverse mapping, so that every path spells what it spelled.
C7_DivideNodeMappings ==
    [][last'.op = "divide_node" =>
          DivideMappingsPost(last'.args[1], last'.args[2], last'.out)]_vars

\* the same, for the calls made while the counter is ahead of every id in use
DivideNodeMappingsCounterAhead ==
    [][(last'.op = "divide_node" /\ CounterAhead) =>
          DivideMappingsPost(last'.args[1], last'.args[2], last'.out)]_vars

\* offsets strictly inside a sequence of length n and strictly increasing
StrictlyInside(positions, n) ==
    /\ \A i \in 1..Len(positions) : 0 < positions[i] /\ positions[i] < n
    /\ \A i \in 1..Len(positions) : \A j \in 1..Len(positions) :
          i < j => positions[i] < positions[j]

\* C8: divide_node makes pieces only for offsets that all lie strictly
\* between 0 and the length of the node and strictly increase; any other
\* list of offsets ends in the fatal error with the store untouched, so no
\* piece with an empty sequence is ever created.
C8_DivideNodeRejectsBadOffsets ==
    [][/\ last'.op = "divide_node" =>
            /\ StrictlyInside(last'.args[2],
                              Len(graph_node[node_by_id[last'.args[1]]].sequence))
            /\ \A i \in 1..Len(graph_node') : graph_node'[i].sequence # <<>>
       /\ last'.op = "divide_node_exit" =>
            /\ ~StrictlyInside(last'.args[2],
                               Len(graph_node[node_by_id[last'.args[1]]].sequence))
            /\ UNCHANGED StoreVars]_vars

\* a path in the order of the ranks of its mappings (mappings of one rank in
\* the order of the list)
RECURSIVE InRankOrder(_)
InRankOrder(path) ==
    IF path = <<>> THEN <<>>
    ELSE LET i == CHOOSE x \in 1..Len(path) :
                      /\ \A y \in 1..Len(path) : path[x].rank <= path[y].rank
                      /\ \A y \in 1..(x - 1) : path[y].rank # path[x].rank
         IN <<path[i]>>
            \o InRankOrder([j \in 1..(Len(path) - 1) |->
                               IF j < i THEN path[j] ELSE path[j + 1]])

\* the traversals of the parts of a division, first to last and forward
PartsOf(S, id, positions) ==
    [i \in 1..(Len(positions) + 1) |->
        <<divide_node_part_ptrs(S, S.node_by_id[id], positions)[i], FALSE>>]

\* store T is store S with node id renumbered to new_id, the embedded paths
\* read in rank order
SameUpToId(S, T, id, new_id) ==
    LET Renumbered(x) == IF x = id THEN new_id ELSE x
        Pairs(U, Rn(_)) ==
            {{NodeSide(Rn(EdgeEnds(U.edge[i])[1][1]), EdgeEnds(U.edge[i])[1][2]),
              NodeSide(Rn(EdgeEnds(U.edge[i])[2][1]), EdgeEnds(U.edge[i])[2][2])} :
                  i \in 1..Len(U.edge)}
        Same(x) == x
    IN /\ Len(T.node) = Len(S.node)
       /\ {[S.node[i] EXCEPT !.id = Renumbered(@)] : i \in 1..Len(S.node)}
              = {T.node[i] : i \in 1..Len(T.node)}
       /\ \A i \in 1..Len(T.node) :
             /\ T.node[i].id \in DOMAIN T.node_by_id
             /\ T.node_by_id[T.node[i].id] = i
       /\ Len(T.edge) = Len(S.edge)
       /\ Pairs(T, Same) = Pairs(S, Renumbered)
       /\ DOMAIN T.paths = DOMAIN S.paths
       /\ \A name \in DOMAIN S.paths :
             [i \in 1..Len(S.paths[name]) |->
                 [InRankOrder(S.paths[name])[i] EXCEPT !.node_id = Renumbered(@)]]
                 = InRankOrder(T.paths[name])

\* the store after divide_node(id, positions) and concat_nodes on the parts
\* is the store before, up to the id of the node
DivideThenConcat(id, positions) ==
    LET Joined(D, nodes) ==
            /\ concat_nodes_asserts(D, nodes)
            /\ SameUpToId(St, concat_nodes(D, nodes), id,
                          concat_nodes(D, nodes).current_id - 1)
    IN Joined(divide_node(St, node_by_id[id], positions), PartsOf(St, id, positions))

\* C9: in every reachable state and for every node and valid offsets,
\* divide_node followed by concat_nodes on the pieces gives the graph before
\* the division up to the id of the node, and every path keeps its mappings:
\* as many as before, with their ranks, spelling the same sequence.
C9_DivideThenConcat ==
    \A id \in NodeIds :
        \A positions \in ValidOffsets(Len(graph_node[node_by_id[id]].sequence)) :
            DivideThenConcat(id, positions)

\* the same, in the states where the counter is ahead of every id in use,
\* the index holds every node under its id, and every mapping covers a node
\* of the store and has a rank of its own in its path
DivideThenConcatCounterAhead ==
    (/\ CounterAhead
     /\ DOMAIN node_by_id = IdsInUse
     /\ \A i \in 1..Len(graph_node) : node_by_id[graph_node[i].id] = i
     /\ \A name \in DOMAIN paths : \A i \in 1..Len(paths[name]) :
           /\ paths[name][i].node_id \in NodeIds
           /\ paths[name][i].length
                  = Len(graph_node[node_by_id[paths[name][i].node_id]].sequence)
           /\ \A j \in 1..Len(paths[name]) :
                  paths[name][i].rank = paths[name][j].rank => i = j)
    => C9_DivideThenConcat

\* the traversal a traversal of the old graph is after apply_orientation of
\* a reverse handle: the two traversals of the re-oriented node change places
Reoriented(x, handle) == IF get_id(x) = get_id(handle) THEN flip(x) ELSE x

\* the traversals one edge away from a traversal in a store: to the right
\* over the side it ends on, to the left over the side it starts on
NeighboursOf(S, handle, go_left) ==
    LET side == NodeSide(get_id(handle), go_left = get_is_reverse(handle))
        others == {IF EdgeEnds(S.edge[i])[1] = side THEN EdgeEnds(S.edge[i])[2]
                   ELSE EdgeEnds(S.edge[i])[1] :
                       i \in {j \in 1..Len(S.edge) :
                                 side \in {EdgeEnds(S.edge[j])[1], EdgeEnds(S.edge[j])[2]}}}
    IN {get_handle(o[1], IF go_left THEN o[2] = FALSE ELSE o[2]) : o \in others}

\* what an apply_orientation(handle) step that returned new_handle did
ApplyOrientationPost(handle, new_handle) ==
    IF ~get_is_reverse(handle)
    THEN new_handle = handle /\ UNCHANGED StoreVars
    ELSE /\ new_handle = get_handle(get_id(handle), FALSE)
         /\ get_id(handle) \in DOMAIN node_by_id'
         /\ graph_node'[node_by_id'[get_id(handle)]].sequence
                = reverse_complement(
                      graph_node[node_by_id[get_id(handle)]].sequence)
         /\ \A go_left \in BOOLEAN :
               NeighboursOf([edge |-> graph_edge'], new_handle, go_left)
                   = {Reoriented(x, handle) :
                          x \in NeighboursOf([edge |-> graph_edge], handle, go_left)}
         /\ Len(graph_edge') = Len(graph_edge)

\* C10: an apply_orientation call on a forward handle returns it and changes
\* nothing; on a reverse handle it returns the forward handle of a node that
\* stores the reverse complement, every traversal one edge to the right
\* (left) of the handle before is, re-oriented, one edge to the right (left)
\* of the returned handle afterwards and no other is, self loops included,
\* and the graph has as many edges as before.
C10_ApplyOrientation ==
    [][last'.op = "apply_orientation" =>
          ApplyOrientationPost(last'.args[1], last'.out[1])]_vars

\* the same, for the calls on a node without a self loop
ApplyOrientationNoSelfLoop ==
    [][(/\ last'.op = "apply_orientation"
        /\ \A i \in 1..Len(graph_edge) :
              graph_edge[i].from = graph_edge[i].to
                  => graph_edge[i].from # get_id(last'.args[1]))
       => ApplyOrientationPost(last'.args[1], last'.out[1])]_vars

\* the elements of a list
Range(s) == {s[i] : i \in 1..Len(s)}

\* the edges of the graph that attach to the side a traversal leaves through
\* going right (go_left: the side it is entered through)
EdgesOnSide(handle, go_left) ==
    {i \in 1..Len(graph_edge) :
        NodeSide(get_id(handle), go_left = get_is_reverse(handle))
            \in {EdgeEnds(graph_edge[i])[1], EdgeEnds(graph_edge[i])[2]}}

\* what a follow_edges(handle, go_left, iteratee) step did, the iteratee
\* returning false on the handles of stop
FollowEdgesPost(handle, go_left, stop, visited, ret) ==
    LET joined == NeighboursOf([edge |-> graph_edge], handle, go_left)
    IN /\ Range(visited) \subseteq joined
       /\ \A i \in 1..Len(visited) : \A j \in 1..Len(visited) :
             visited[i] = visited[j] => i = j
       /\ \A i \in 1..(Len(visited) - 1) : visited[i] \notin stop
       /\ ret = (Range(visited) \cap stop = {})
       /\ ret => /\ Range(visited) = joined
                 /\ Len(visited) = Cardinality(EdgesOnSide(handle, go_left))
       /\ \A n \in NodeIds : \A r \in BOOLEAN :
             (get_handle(n, r) \in Range(follow_edges(St, handle, go_left)))
                 <=> (handle \in Range(follow_edges(St, get_handle(n, r), ~go_left)))

\* C11: a follow_edges call visits exactly the traversals joined by one edge
\* to the right of the handle (to its left with go_left), each in the
\* orientation a walk continues in and once per edge; it stops at the first
\* visit that returns false and returns false, otherwise it returns true;
\* and u is visited going one way from t iff t is visited going the other
\* way from u.
C11_FollowEdges ==
    [][last'.op = "follow_edges" =>
          FollowEdgesPost(last'.args[1], last'.args[2], last'.args[3],
                          last'.out[1], last'.out[2])]_vars

\* a call on a reverse handle that was stopped at its second visit, one of
\* the edges followed being a self loop on a single side
C11_Witness ==
    /\ last.op = "follow_edges"
    /\ get_is_reverse(last.args[1])
    /\ Len(last.out[1]) = 2
    /\ ~last.out[2]
    /\ \E i \in 1..Len(graph_edge) :
          /\ graph_edge[i].from = graph_edge[i].to
          /\ graph_edge[i].from_start # graph_edge[i].to_end
          /\ graph_edge[i].from = get_id(last.args[1])


\* the sequence the edits of a mapping spell from a cursor on the oriented
\* sequence of its node: a match spells the bases it covers, an insertion or
\* a substitution its own sequence, a deletion nothing
RECURSIVE SpelledEdits(_, _, _)
SpelledEdits(oriented, cursor, es) ==
    IF es = <<>> THEN <<>>
    ELSE (IF Head(es).sequence # <<>> THEN Head(es).sequence
          ELSE IF Head(es).to_length = 0 THEN <<>>
          ELSE SubSeq(oriented, cursor + 1, cursor + Head(es).from_length))
         \o SpelledEdits(oriented, cursor + Head(es).from_length, Tail(es))

\* the sequence an input path spells on the nodes before the edit
RECURSIVE SpelledInput(_)
SpelledInput(ms) ==
    IF ms = <<>> THEN <<>>
    ELSE LET seq == graph_node[node_by_id[Head(ms).node_id]].sequence
         IN SpelledEdits(IF Head(ms).is_reverse THEN reverse_complement(seq) ELSE seq,
                         Head(ms).offset, Head(ms).edit)
            \o SpelledInput(Tail(ms))

\* the sequence an embedded path spells on the nodes after the edit
RECURSIVE SpelledAfter(_)
SpelledAfter(ms) ==
    IF ms = <<>> THEN <<>>
    ELSE LET seq == graph_node'[node_by_id'[Head(ms).node_id]].sequence
         IN (IF Head(ms).is_reverse THEN reverse_complement(seq) ELSE seq)
            \o SpelledAfter(Tail(ms))

\* the path embedded under a name by a step, empty where there is none
EmbeddedAfter(name) == IF name \in DOMAIN paths' THEN paths'[name] ELSE <<>>

\* every mapping of the embedded path is a full-length match on a node of
\* the graph after the step
EmbeddedOnNodes(out) ==
    \A i \in 1..Len(out) :
        /\ out[i].node_id \in DOMAIN node_by_id'
        /\ node_by_id'[out[i].node_id] \in 1..Len(graph_node')
        /\ graph_node'[node_by_id'[out[i].node_id]].id = out[i].node_id
        /\ out[i].length = Len(graph_node'[node_by_id'[out[i].node_id]].sequence)

\* every two consecutive mappings of the embedded path are joined by an edge
\* from the right side of the first to the left side of the second
EmbeddedJoined(out) ==
    \A i \in 1..(Len(out) - 1) :
        {NodeSide(out[i].node_id, ~out[i].is_reverse),
         NodeSide(out[i + 1].node_id, out[i + 1].is_reverse)} \in SidePairs(graph_edge')

\* what an edit step that embedded its one input path did
EditPost(paths_to_add) ==
    LET out == EmbeddedAfter(paths_to_add[1].name)
    IN /\ EmbeddedOnNodes(out)
       /\ EmbeddedJoined(out)
       /\ EmbeddedOnNodes(out) => SpelledAfter(out) = SpelledInput(paths_to_add[1].mapping)

\* C12: after edit(paths, save_paths = true) every embedded path consists of
\* full-length perfect matches on nodes of the graph, every two consecutive
\* mappings of it are joined by an edge from the right side of the first to
\* the left side of the second in the mapped orientations, and the visited
\* node sequences concatenated are the sequence the input path spelled.
C12_EditEmbedsPaths ==
    [][last'.op = "edit" => EditPost(last'.args[1])]_vars

\* the same, for the edits made while the id counter is ahead of every id in
\* use
C12_EditEmbedsPathsCounterAhead ==
    [][(last'.op = "edit" /\ CounterAhead) => EditPost(last'.args[1])]_vars

\* the path of the example: one mapping on node 1 at offset 0 with the edits
\* match 2, insert "TT", match 2
ExamplePath ==
    <<[name |-> "p",
       mapping |-> <<[node_id |-> 1, is_reverse |-> FALSE, offset |-> 0,
                      edit |-> <<[from_length |-> 2, to_length |-> 2, sequence |-> <<>>],
                                 [from_length |-> 0, to_length |-> 2, sequence |-> <<"T", "T">>],
                                 [from_length |-> 2, to_length |-> 2, sequence |-> <<>>]>>]>>]>>

\* the graph of the example: the single node 1 = "ACGT"
ExampleGraph ==
    /\ graph_node = <<[id |-> 1, sequence |-> <<"A", "C", "G", "T">>]>>
    /\ graph_edge = <<>>
    /\ paths = EmptyMap

\* the graph and the path the example ends with: node 1 replaced by the
\* pieces "AC" and "GT", one new node "TT", the edges AC -> TT and TT -> GT
\* next to the edge AC -> GT of the division, and the path AC, TT, GT
ExampleResult ==
    \E ac \in DOMAIN node_by_id', tt \in DOMAIN node_by_id', gt \in DOMAIN node_by_id' :
        /\ Cardinality({ac, tt, gt}) = 3
        /\ DOMAIN node_by_id' = {ac, tt, gt}
        /\ {graph_node'[i] : i \in 1..Len(graph_node')}
               = {[id |-> ac, sequence |-> <<"A", "C">>],
                  [id |-> gt, sequence |-> <<"G", "T">>],
                  [id |-> tt, sequence |-> <<"T", "T">>]}
        /\ Len(graph_node') = 3
        /\ \A n \in {ac, tt, gt} : graph_node'[node_by_id'[n]].id = n
        /\ {NodeSide(ac, TRUE), NodeSide(tt, FALSE)} \in SidePairs(graph_edge')
        /\ {NodeSide(tt, TRUE), NodeSide(gt, FALSE)} \in SidePairs(graph_edge')
        /\ SidePairs(graph_edge') = {{NodeSide(ac, TRUE), NodeSide(tt, FALSE)},
                                     {NodeSide(tt, TRUE), NodeSide(gt, FALSE)},
                                     {NodeSide(ac, TRUE), NodeSide(gt, FALSE)}}
        /\ Len(graph_edge') = 3
        /\ paths' = [name \in {"p"} |-> <<Mapping(ac, FALSE, 2, 1),
                                           Mapping(tt, FALSE, 2, 2),
                                           Mapping(gt, FALSE, 2, 3)>>]

\* C13: the edit engine on the graph with the single node 1 = "ACGT" and one
\* path whose mapping at offset 0 is match 2, insert "TT", match 2 splits
\* node 1 at offset 2 into a node "AC" and a node "GT", makes one new node
\* "TT" and the edges AC -> TT and TT -> GT, and embeds a path that visits
\* AC, TT, GT in that order with the ranks 1, 2, 3.
C13_EditExample ==
    [][(last'.op = "edit" /\ ExampleGraph /\ last'.args[1] = ExamplePath)
          => ExampleResult]_vars

\* the example has been run: the graph of three nodes that the example path
\* left behind, with the new node "TT" on the embedded path
C13_Witness ==
    /\ last.op = "edit"
    /\ last.args[1] = ExamplePath
    /\ Len(graph_node) = 3
    /\ "p" \in DOMAIN paths
    /\ Len(paths["p"]) = 3
    /\ \E i \in 1..Len(graph_node) : graph_node[i].sequence = <<"T", "T">>

\* the traversals <<id, backward>> of a list of nodes
TravsOf(nodes) == {nodes[i].id : i \in 1..Len(nodes)} \X BOOLEAN

\* the traversals a walk can continue on after a traversal: those whose left
\* side an edge of the list joins to the right side of the traversal
WalkStepsIn(nodes, edges, t) ==
    {u \in TravsOf(nodes) :
        {NodeSide(t[1], ~t[2]), NodeSide(u[1], u[2])} \in SidePairs(edges)}

\* the traversals reached from a set of traversals by walks of any length
RECURSIVE WalkClosureIn(_, _, _)
WalkClosureIn(nodes, edges, ts) ==
    LET more == ts \cup UNION {WalkStepsIn(nodes, edges, t) : t \in ts}
    IN IF more = ts THEN ts ELSE WalkClosureIn(nodes, edges, more)

\* some walk over at least one edge returns to the traversal it started on
HasCycleIn(nodes, edges) ==
    \E t \in TravsOf(nodes) :
        t \in WalkClosureIn(nodes, edges, WalkStepsIn(nodes, edges, t))

\* the same of the graph
Travs == TravsOf(graph_node)

WalkSteps(t) == WalkStepsIn(graph_node, graph_edge, t)

\* the traversals reached from a traversal by walks over at least one edge
ReachedFrom(t) == WalkClosureIn(graph_node, graph_edge, WalkSteps(t))

HasCycle == HasCycleIn(graph_node, graph_edge)

\* some edge joins a node to itself
HasSelfLoop == \E i \in 1..Len(graph_edge) : graph_edge[i].from = graph_edge[i].to

\* the graph with the single node 1 = "AAAA" and the single edge (1 end, 1 end)
OneSidedLoopGraph ==
    /\ graph_node = <<[id |-> 1, sequence |-> <<"A", "A", "A", "A">>]>>
    /\ Len(graph_edge) = 1
    /\ SidePairs(graph_edge) = {{NodeSide(1, TRUE)}}

\* what a cyclicity check that returned acyclic says of the graph
CyclicityPost(acyclic) ==
    /\ acyclic => (~HasSelfLoop /\ ~HasCycle)
    /\ OneSidedLoopGraph => ~acyclic

\* C14: the Kahn-style cyclicity check reports cyclic (is_directed_acyclic
\* returns false) for every graph in which some node keeps an entry with a
\* non-zero degree after the elimination, in particular for the graph with
\* the single node 1 = "AAAA" and the single edge (1 end, 1 end), and reports
\* acyclic only for graphs without self loops or other cycles.
C14_CyclicityCheck ==
    [][last'.op = "is_directed_acyclic" =>
          /\ (last'.out[2] # {}) => ~last'.out[1]
          /\ CyclicityPost(last'.out[1])]_vars

\* the same of is_acyclic, the check by depth-first search
C14_IsAcyclic ==
    [][last'.op = "is_acyclic" => CyclicityPost(last'.out[1])]_vars

\* is_directed_acyclic reports acyclic only for graphs without a cycle of
\* traversals
C14_DirectedAcyclicNoCycle ==
    [][(last'.op = "is_directed_acyclic" /\ last'.out[1]) => ~HasCycle]_vars

\* is_directed_acyclic reports cyclic for every graph with a cycle of
\* traversals or a self loop from one side of a node to its other side
C14_DirectedAcyclicComplete ==
    [][(last'.op = "is_directed_acyclic" /\ ~HasCycle) => last'.out[1]]_vars

\* two traversals each reached from the other by a walk
MutuallyReachable(t, u) ==
    t = u \/ (u \in ReachedFrom(t) /\ t \in ReachedFrom(u))

\* some traversal of the one node and some traversal of the other are
\* mutually reachable
StronglyConnected(a, b) ==
    \E ra \in BOOLEAN, rb \in BOOLEAN : MutuallyReachable(<<a, ra>>, <<b, rb>>)

\* what the sets of ids returned for the components are: a partition of the
\* ids of the graph whose classes are the strongly connected ids
ComponentsPost(components) ==
    LET ids == {graph_node[i].id : i \in 1..Len(graph_node)}
    IN /\ UNION components = ids
       /\ \A id \in ids : Cardinality({c \in components : id \in c}) = 1
       /\ \A a \in ids : \A b \in ids :
             (\E c \in components : a \in c /\ b \in c) <=> StronglyConnected(a, b)

\* C15: strongly_connected_components returns a partition of the node ids
\* of the graph: every id is in exactly one returned set, the two
\* orientations of a node never fall into different sets, and two ids are in
\* the same set iff some traversal of the one and some traversal of the
\* other are mutually reachable by walks.
C15_ComponentsPartition ==
    [][last'.op = "strongly_connected_components" => ComponentsPost(last'.out[1])]_vars

\* the components of a graph of two nodes have been returned: one component
\* of both, closed by walks that change strand on the way
C15_Witness ==
    /\ last.op = "strongly_connected_components"
    /\ last.out[1] = {{1, 2}}
    /\ Len(graph_edge) = 2
    /\ \A i \in 1..Len(graph_edge) :
          /\ graph_edge[i].from # graph_edge[i].to
          /\ graph_edge[i].from_start # graph_edge[i].to_end

\* C16: for the graph with the single node 1 = "AAAA" and the single edge
\* (1 end, 1 end) the computation of the strongly connected components
\* returns the component {1} and keeps it among the components that count
\* as strongly connected, not dropping it as a trivial one-node component.
C16_OneSidedLoopComponent ==
    [][OneSidedLoopGraph =>
          /\ last'.op = "strongly_connected_components" => last'.out[1] = {{1}}
          /\ last'.op = "multinode_strongly_connected_components" => {1} \in last'.out[1]]_vars

\* strongly_connected_components returns the component {1} for that graph
C16_OneSidedLoopReturned ==
    [][(OneSidedLoopGraph /\ last'.op = "strongly_connected_components")
          => last'.out[1] = {{1}}]_vars

\* C17: for every input graph and every choice of expand_steps,
\* min_walk_length and component_max the graph returned by dagify has no
\* self loop and no walk that returns to the traversal it started from.
C17_DagifyAcyclic ==
    [][last'.op = "dagify" =>
          /\ \A i \in 1..Len(last'.out[2]) : last'.out[2][i].from # last'.out[2][i].to
          /\ ~HasCycleIn(last'.out[1], last'.out[2])]_vars

\* the same of the graphs whose edges all run from the end of a node to the
\* start of a node
C17_DagifyForwardEdges ==
    [][(/\ last'.op = "dagify"
        /\ \A i \in 1..Len(graph_edge) :
               ~graph_edge[i].from_start /\ ~graph_edge[i].to_end) =>
          /\ \A i \in 1..Len(last'.out[2]) : last'.out[2][i].from # last'.out[2][i].to
          /\ ~HasCycleIn(last'.out[1], last'.out[2])]_vars

\* the mappings of a path on a node
MappingsOn(name, id) ==
    {paths[name][i] : i \in {j \in 1..Len(paths[name]) : paths[name][j].node_id = id}}

\* the names of the paths with a mapping on a node
PathNamesOn(id) == {name \in DOMAIN paths : MappingsOn(name, id) # {}}

\* a mapping goes the way of a traversal <<id, backward>> of its node
GoesWith(m, t) == m.is_reverse = t[2]

\* (a) the two nodes carry the same set of path names
SamePathNames(u, v) == PathNamesOn(u[1]) = PathNamesOn(v[1])

\* (b) for every path, each mapping on u has a mapping on v that is next in
\* rank the way the path goes over u and is oriented to v as the first is to
\* u, and each mapping on v has such a mapping on u
ConsecutiveMappings(u, v) ==
    \A name \in PathNamesOn(u[1]) \cup PathNamesOn(v[1]) :
        /\ \A m \in MappingsOn(name, u[1]) : \E n \in MappingsOn(name, v[1]) :
              /\ n.rank = m.rank + (IF GoesWith(m, u) THEN 1 ELSE -1)
              /\ GoesWith(n, v) = GoesWith(m, u)
        /\ \A n \in MappingsOn(name, v[1]) : \E m \in MappingsOn(name, u[1]) :
              /\ m.rank = n.rank - (IF GoesWith(n, v) THEN 1 ELSE -1)
              /\ GoesWith(m, u) = GoesWith(n, v)

\* (c) every mapping on u and on v covers its whole node
TotalMatches(u, v) ==
    \A name \in DOMAIN paths : \A i \in 1..Len(paths[name]) :
        paths[name][i].node_id \in {u[1], v[1]} =>
            paths[name][i].length
                = Len(graph_node[node_by_id[paths[name][i].node_id]].sequence)

\* C19: nodes_are_perfect_path_neighbors(u, v) returns true if and only if
\* (a) u and v carry exactly the same set of path names, (b) for every such
\* path each mapping on u has a mapping on v that is consecutive in rank and
\* consistently oriented with the traversals, and vice versa, and (c) every
\* mapping on u and on v is a match covering the whole node; it returns false
\* whenever a mapping on either node is not a full-length match.
C19_PerfectPathNeighbors ==
    [][last'.op = "nodes_are_perfect_path_neighbors" =>
          (last'.out[1] <=> (/\ SamePathNames(last'.args[1], last'.args[2])
                             /\ ConsecutiveMappings(last'.args[1], last'.args[2])
                             /\ TotalMatches(last'.args[1], last'.args[2])))]_vars

\* the same without (c): the function returns true if and only if (a) and
\* (b) hold
C19_NeighborsWithoutTotalMatch ==
    [][last'.op = "nodes_are_perfect_path_neighbors" =>
          (last'.out[1] <=> (/\ SamePathNames(last'.args[1], last'.args[2])
                             /\ ConsecutiveMappings(last'.args[1], last'.args[2])))]_vars

\* the number of iteratee calls a for_each_handle call has begun
CallsBegun(it) == Len(it.visited) + Cardinality(it.in_flight)

\* C20: when a visitor has returned false, a serial iteration calls the
\* visitor on no further node, and a parallel iteration lets the calls in
\* flight finish and begins no new visitor call.
C20_Cancellation ==
    [][(last.op = "for_each_handle" /\ last.out[1].stopped /\ last'.op = "for_each_handle")
          => CallsBegun(last'.out[1]) = CallsBegun(last.out[1])]_vars

\* the same of the serial iteration alone
C20_SerialCancellation ==
    [][(/\ last.op = "for_each_handle" /\ ~last.args[1]
        /\ last.out[1].stopped /\ last'.op = "for_each_handle")
          => CallsBegun(last'.out[1]) = CallsBegun(last.out[1])]_vars

\* a finished parallel iteration has called the visitor on every node,
\* whatever the visitor returned
C20_ParallelVisitsAll ==
    (last.op = "for_each_handle" /\ last.args[1] /\ last.out[1].done)
        => {last.out[1].visited[k] : k \in 1..Len(last.out[1].visited)}
               = {get_handle(graph_node[k].id, FALSE) : k \in 1..Len(graph_node)}

\* the traversals of the nodes of the graph, as unfold names them
UnfoldTravs == (1..Len(graph_node)) \X BOOLEAN

\* whether the graph has an edge from the right side of one traversal to the
\* left side of another
UnfoldStep(a, b) == \E i \in 1..Len(nodes_next(St, a)) : nodes_next(St, a)[i] = b

\* whether a traversal reads its node against the main orientation that
\* unfold gave it
OnReverseStrand(out, t) == t[2] # out[4][trav_id(St, t)][2]

\* the total length of a walk
RECURSIVE WalkLength(_)
WalkLength(w) ==
    IF w = <<>> THEN 0 ELSE Len(graph_node[Head(w)[1]].sequence) + WalkLength(Tail(w))

\* the walks of total length at most L on the reverse strand that are entered
\* from the main strand through a reversing edge
ReverseWalks(out, L) ==
    {w \in UNION {[1..k -> UnfoldTravs] : k \in 1..L} :
        /\ \A i \in 1..Len(w) : OnReverseStrand(out, w[i])
        /\ \A i \in 1..(Len(w) - 1) : UnfoldStep(w[i], w[i + 1])
        /\ \E t \in UnfoldTravs : ~OnReverseStrand(out, t) /\ UnfoldStep(t, w[1])
        /\ WalkLength(w) <= L}

\* whether the unfolded graph has a walk of forward traversals whose nodes
\* translate to the traversals of w and carry their sequences
HasForwardWalk(out, w) ==
    LET unode == out[1]
        uedge == out[2]
        translation == out[3]
    IN \E u \in [1..Len(w) -> DOMAIN translation] :
        /\ \A i \in 1..Len(w) :
              /\ translation[u[i]] = <<trav_id(St, w[i]), w[i][2]>>
              /\ \E n \in 1..Len(unode) :
                     unode[n].id = u[i] /\ unode[n].sequence = trav_sequence(St, w[i])
        /\ \A i \in 1..(Len(w) - 1) :
              \E e \in 1..Len(uedge) :
                  /\ uedge[e].from = u[i] /\ uedge[e].to = u[i + 1]
                  /\ ~uedge[e].from_start /\ ~uedge[e].to_end

\* whether the result of unfold(L) keeps the walks of the reverse strand
UnfoldKeepsWalks(out, L) == \A w \in ReverseWalks(out, L) : HasForwardWalk(out, w)

\* C18: after unfold(L), every walk of total length at most L on the reverse
\* strand of the graph, entered through a reversing edge, has a walk of
\* forward traversals in the unfolded graph that corresponds to it node by
\* node and spells the same sequence.
C18_UnfoldReverseWalks ==
    last.op = "unfold" => UnfoldKeepsWalks(last.out, last.args[1])

\* every edge of the unfolded graph is a forward edge between the copies of
\* two traversals that the graph joins, and every copy carries the sequence
\* of its traversal
C18_UnfoldedEdgesAreSteps ==
    (last.op = "unfold" /\ last.args[1] > 0) =>
        LET unode == last.out[1]
            uedge == last.out[2]
            translation == last.out[3]
            TravOf(u) == <<get_node(St, translation[u][1]), translation[u][2]>>
        IN /\ \A n \in 1..Len(unode) :
                  /\ unode[n].id \in DOMAIN translation
                  /\ unode[n].sequence = trav_sequence(St, TravOf(unode[n].id))
           /\ \A e \in 1..Len(uedge) :
                  /\ ~uedge[e].from_start /\ ~uedge[e].to_end
                  /\ UnfoldStep(TravOf(uedge[e].from), TravOf(uedge[e].to))

\* whether a translation carries a node of the dag to the node of the graph
\* with its sequence
TranslatedTo(node_translation, node) ==
    /\ node.id \in DOMAIN node_translation
    /\ \E n \in 1..Len(graph_node) :
           /\ graph_node[n].id = node_translation[node.id][1]
           /\ graph_node[n].sequence = node.sequence

\* C29: when dagify returns, the translation has an entry for every node of
\* the returned graph, and the entry names the node of the graph whose
\* sequence it carries, a node copied unchanged naming itself.
C29_DagifyTranslation ==
    [][last'.op = "dagify" =>
          \A i \in 1..Len(last'.out[1]) : TranslatedTo(last'.out[3], last'.out[1][i])]_vars

\* every entry of the translation belongs to a node of the returned graph and
\* names the node of the graph whose sequence it carries
C29_TranslationEntries ==
    [][last'.op = "dagify" =>
          \A id \in DOMAIN last'.out[3] :
              \E i \in 1..Len(last'.out[1]) :
                  /\ last'.out[1][i].id = id
                  /\ TranslatedTo(last'.out[3], last'.out[1][i])]_vars

\* the nodes of the returned graph without an entry are the nodes of the
\* unrolled components under their own ids
C29_UntranslatedAreBase ==
    [][last'.op = "dagify" =>
          \A i \in 1..Len(last'.out[1]) :
              last'.out[1][i].id \notin DOMAIN last'.out[3]
                  <=> \E c \in strongly_connected_components(St, [n \in 1..Len(graph_node) |-> n]) :
                          /\ last'.out[1][i].id \in c
                          /\ (Cardinality(c) > 1 \/ is_self_looping(St, last'.out[1][i].id))]_vars

\* C30: for every net handle h of any of the nine connectivity tags, flip(h)
\* is a handle of the same record and kind with the endpoints exchanged, so
\* that flip(flip(h)) = h, and flip(h) = h exactly for start-start, end-end
\* and tip-tip.
C30_FlipExchangesEndpoints ==
    [][last'.op = "flip" =>
          LET h == last'.args[1]
              f == last'.out[1]
          IN /\ get_record_offset(f) = get_record_offset(h)
             /\ get_handle_type(f) = get_handle_type(h)
             /\ starts_at(f) = ends_at(h)
             /\ ends_at(f) = starts_at(h)
             /\ flip_net(f) = h
             /\ (f = h <=> get_connectivity(h) \in {"START_START", "END_END", "TIP_TIP"})]_vars

\* flip exchanges the endpoints of the handles that start at the start and
\* end at the end or at a tip, the handle being of the kind of its record
C30_FlipFromStart ==
    [][(/\ last'.op = "flip"
        /\ get_connectivity(last'.args[1]) \in {"START_END", "START_TIP"}
        /\ get_handle_type(last'.args[1]) =
               record_handle_types[get_record_offset(last'.args[1]) + 1]) =>
          LET h == last'.args[1]
              f == last'.out[1]
          IN /\ get_record_offset(f) = get_record_offset(h)
             /\ get_handle_type(f) = get_handle_type(h)
             /\ starts_at(f) = ends_at(h)
             /\ ends_at(f) = starts_at(h)]_vars

\* flip gives every other handle the tag start-end
C30_FlipOtherwiseStartEnd ==
    [][(/\ last'.op = "flip"
        /\ get_connectivity(last'.args[1]) \notin {"START_END", "START_TIP"}) =>
          get_connectivity(last'.out[1]) = "START_END"]_vars

\* ------------------------------------------------------------------ snarl distance index

\* the frames of a stack alternate in kind, a chain frame at the bottom
AlternatingStack(stack) ==
    \A k \in 1..Len(stack) :
        stack[k][1] = (IF k % 2 = 1 THEN "TEMP_CHAIN" ELSE "TEMP_SNARL")

\* the record a frame designates
FrameRecord(tdi, frame) ==
    IF frame[1] = "TEMP_CHAIN" THEN tdi.temp_chain_records[frame[2] + 1]
    ELSE tdi.temp_snarl_records[frame[2] + 1]

\* an end callback took the structure ended off the stack and recorded its parent
EndedProperly(before, after, popped, kind) ==
    LET ended == back(before.open)
    IN /\ popped = ended.frame
       /\ popped[1] = (IF kind = "chain" THEN "TEMP_CHAIN" ELSE "TEMP_SNARL")
       /\ after.stack = pop_back(before.stack)
       /\ FrameRecord(after, popped).parent =
              (IF after.open = <<>> THEN <<"TEMP_ROOT", 0>> ELSE back(after.open).frame)
       /\ after.open # <<>> =>
              back(after.open).kind = (IF kind = "chain" THEN "snarl" ELSE "chain")
       /\ kind = "snarl" => after.open # <<>>

\* C26: over a properly nested sequence of callbacks the stack alternates in kind
\* with a chain frame at the bottom, each end callback pops the frame its matching
\* start callback pushed, the parent recorded for a snarl is its enclosing chain and
\* for a chain its enclosing snarl or the virtual root, and the stack is empty when
\* no structure is open.
C26_StackDiscipline ==
    [][(last'.op \in {"chain_start", "chain_end", "snarl_start", "snarl_end"}) =>
          /\ AlternatingStack(last'.out[1].stack)
          /\ last'.out[1].open = <<>> => last'.out[1].stack = <<>>
          /\ Len(last'.out[1].stack) = Len(last'.out[1].open)
          /\ last'.op = "chain_end" =>
                EndedProperly(last.out[1], last'.out[1], last'.out[2], "chain")
          /\ last'.op = "snarl_end" =>
                EndedProperly(last.out[1], last'.out[1], last'.out[2], "snarl")]_vars

\* a traversal has ended that met a chain inside a snarl of a root chain
C26_NestedTraversalEnded ==
    /\ last.op = "chain_end"
    /\ last.out[1].open = <<>>
    /\ last.out[1].stack = <<>>
    /\ \E c \in 1..Len(last.out[1].temp_chain_records) :
          last.out[1].temp_chain_records[c].parent[1] = "TEMP_SNARL"
    /\ \E s \in 1..Len(last.out[1].temp_snarl_records) :
          last.out[1].temp_snarl_records[s].parent[1] = "TEMP_CHAIN"

\* the snarls whose recorded parent is the chain at offset c
SnarlsOf(tdi, c) ==
    {s \in 0..(Len(tdi.temp_snarl_records) - 1) :
        tdi.temp_snarl_records[s + 1].parent = <<"TEMP_CHAIN", c>>}

\* a child list of the form node, snarl, node, ..., snarl, node for the chain at offset c
ChainForm(tdi, c) ==
    LET chain == tdi.temp_chain_records[c + 1]
        children == chain.children
        n == Len(children)
    IN /\ n % 2 = 1
       /\ \A k \in 1..n :
             children[k][1] = (IF k % 2 = 1 THEN "TEMP_NODE" ELSE "TEMP_SNARL")
       /\ children[1] = <<"TEMP_NODE", chain.start_node_id - tdi.min_node_id>>
       /\ children[n] = <<"TEMP_NODE", chain.end_node_id - tdi.min_node_id>>
       /\ \A s \in SnarlsOf(tdi, c) :
             Cardinality({k \in 1..n : children[k] = <<"TEMP_SNARL", s>>}) = 1

\* C22: when the first pass has finished, the child list of every chain record
\* starts with the chain's start boundary node, ends with its end boundary node,
\* alternates node and snarl entries and holds every snarl of the chain once.
C22_ChainChildren ==
    (Traversing /\ last.op # "TemporaryDistanceIndex" /\ last.out[1].open = <<>>) =>
        \A c \in 0..(Len(last.out[1].temp_chain_records) - 1) : ChainForm(last.out[1], c)

\* what the callbacks build: per snarl of the chain, in order, the snarl twice and
\* then its end boundary node; the start boundary node is no entry
RECURSIVE ChildrenAsBuilt(_, _, _)
ChildrenAsBuilt(tdi, children, at) ==
    IF children = <<>> THEN TRUE
    ELSE /\ Len(children) >= 3
         /\ children[1][1] = "TEMP_SNARL"
         /\ children[2] = children[1]
         /\ tdi.temp_snarl_records[children[1][2] + 1].start_node_id = at
         /\ children[3] = <<"TEMP_NODE",
                 tdi.temp_snarl_records[children[1][2] + 1].end_node_id - tdi.min_node_id>>
         /\ ChildrenAsBuilt(tdi, SubSeq(children, 4, Len(children)),
                            tdi.temp_snarl_records[children[1][2] + 1].end_node_id)

\* the child list of every finished chain is the list the callbacks build
C22_ChildrenAsBuilt ==
    (Traversing /\ last.op # "TemporaryDistanceIndex") =>
        \A k \in 1..Len(last.out[1].all_chains) :
            LET chain == last.out[1].temp_chain_records[last.out[1].all_chains[k][2] + 1]
            IN ChildrenAsBuilt(last.out[1], chain.children, chain.start_node_id)

\* the offsets of the chains in reverse discovery order
ReverseDiscovery(tdi) ==
    [k \in 1..Len(tdi.all_chains) |-> tdi.all_chains[Len(tdi.all_chains) + 1 - k][2]]

\* the snarls of the chain at offset c in the order they were met
RECURSIVE SnarlsInOrder(_, _, _)
SnarlsInOrder(tdi, c, s) ==
    IF s >= Len(tdi.temp_snarl_records) THEN <<>>
    ELSE (IF s \in SnarlsOf(tdi, c) THEN <<s>> ELSE <<>>) \o SnarlsInOrder(tdi, c, s + 1)

\* the prefix sums of the chain at offset c over its boundary nodes n0 ... nk
PrefixSumsOf(tdi, c, snarls) ==
    LET between == SnarlsInOrder(tdi, c, 0)
        prefix_sum == tdi.temp_chain_records[c + 1].prefix_sum
    IN /\ Len(prefix_sum) = Len(between) + 1
       /\ prefix_sum[1] = int64_t(0)
       /\ \A i \in 1..Len(between) :
             prefix_sum[i + 1] =
                 int64_plus(prefix_sum[i],
                            tdi.temp_snarl_records[between[i] + 1].start_node_length
                            + (IF snarls[between[i] + 1].is_trivial_snarl THEN 0
                               ELSE snarls[between[i] + 1].min_length))

\* C27: after the second pass every chain found by the first pass has been
\* processed once, in reverse discovery order, and the chain with boundary nodes
\* n0 ... nk has k + 1 prefix sums, the first 0 and each next one greater by the
\* length of the boundary node and the minimum length of the snarl after it.
C27_PrefixSums ==
    last.op = "distance_pass" =>
        /\ last.out[1].status = "ok"
        /\ last.out[1].processed = ReverseDiscovery(last.out[1])
        /\ \A c \in 0..(Len(last.out[1].temp_chain_records) - 1) :
              PrefixSumsOf(last.out[1], c, last.args[1])

\* what the pass does when it runs to its end: the chain whose offset is read past
\* the end of all_chains is processed first, then every chain in reverse discovery
\* order, one round more than there are chains
C27_RoundsAsBuilt ==
    (last.op = "distance_pass" /\ last.out[1].status = "ok") =>
        /\ last.out[1].processed = <<last.args[3]>> \o ReverseDiscovery(last.out[1])
        /\ Len(last.out[1].processed) = Len(last.out[1].temp_chain_records) + 1

\* when the offset read past the end of all_chains is no chain's offset, no chain
\* is processed
C27_StrayOffset ==
    (last.op = "distance_pass" /\ last.args[3] < 0) =>
        /\ last.out[1].status = "undefined"
        /\ last.out[1].processed = <<>>

\* the loop distances stored for the chain at offset c
LoopDistances(tdi, c) ==
    {tdi.temp_chain_records[c + 1].backward_loops[k] :
        k \in 1..Len(tdi.temp_chain_records[c + 1].backward_loops)}
    \cup {tdi.temp_chain_records[c + 1].forward_loops[k] :
        k \in 1..Len(tdi.temp_chain_records[c + 1].forward_loops)}

\* C24: the loop distances filled in by the second pass are distances, none is a
\* wrapped sum, the entry written after an unreachable backward loop is unreachable
\* or the loop of the snarl alone, and the pass raises no error.
C24_UnreachableStays ==
    last.op = "distance_pass" =>
        /\ last.out[1].status # "trap"
        /\ \A c \in 0..(Len(last.out[1].temp_chain_records) - 1) :
              /\ \A d \in LoopDistances(last.out[1], c) : ~int64_less(d, int64_t(0))
              /\ LET backward_loops == last.out[1].temp_chain_records[c + 1].backward_loops
                 IN \A k \in 1..(Len(backward_loops) - 1) :
                       backward_loops[k] = numeric_limits_max =>
                           backward_loops[k + 1] \in
                               {numeric_limits_max}
                               \cup {last.args[1][s].loop_end : s \in DOMAIN last.args[1]}

\* what the pass stores in a wrapping build for the first snarl of a chain whose
\* own loop is unreachable: the wrapped sum of the sentinel and twice the lengths
C24_WrappedAsBuilt ==
    (last.op = "distance_pass" /\ last.out[1].status = "ok") =>
        \A c \in 0..(Len(last.out[1].temp_chain_records) - 1) :
            LET chain == last.out[1].temp_chain_records[c + 1]
            IN (/\ chain.children # <<>>
                /\ last.args[1][chain.children[1][2] + 1].loop_end = numeric_limits_max)
               => /\ chain.backward_loops[1] = numeric_limits_max
                  /\ chain.backward_loops[2] =
                         <<0 - 1, 2 * (last.out[1].temp_snarl_records[
                                           chain.children[1][2] + 1].start_node_length
                                       + (IF last.args[1][chain.children[1][2] + 1].is_trivial_snarl
                                          THEN 0
                                          ELSE last.args[1][chain.children[1][2] + 1].min_length))
                                   - 1>>

\* a trapping build does not run to the end of the pass when a chain has a snarl
C24_TrapAsBuilt ==
    (last.op = "distance_pass" /\ last.args[2] = "trap"
        /\ last.out[1].temp_snarl_records # <<>>)
    => last.out[1].status # "ok"

\* ------------------------------------------------------------------ parallel iteration

\* the threads about to write to the graph store
Mutating(it) == {t \in DOMAIN it.threads : it.threads[t].pc \in {"lambda", "edge_lambda"}}

\* C21: at most one thread at a time mutates the graph store, and a thread
\* that mutates it holds the mutex of the graph.
C21_SingleWriter ==
    Incrementing =>
        /\ Cardinality(Mutating(last.out[1])) <= 1
        /\ \A t \in Mutating(last.out[1]) : "mutex_graph" \in last.out[1].threads[t].holds

\* every step that changes the list of nodes or of edges is taken by a thread
\* holding the mutex
C21_MutationsLocked ==
    [][((graph_node' # graph_node \/ graph_edge' # graph_edge) /\ last.op = "increment_node_ids"
            /\ last'.op = "increment_node_ids" /\ ~last'.out[1].done) =>
          \E t \in Mutating(last.out[1]) :
              "mutex_graph" \in last.out[1].threads[t].holds]_vars

\* what the call leaves: the node index rebuilt over the new ids
C21_IndexRebuilt ==
    (last.op = "increment_node_ids" /\ last.out[1].done) =>
        /\ DOMAIN node_by_id = {graph_node[i].id : i \in 1..Len(graph_node)}
        /\ \A i \in 1..Len(graph_node) : node_by_id[graph_node[i].id] = i

\* the shared counter may lose a count, two threads having read the same value
C21_CountAsBuilt ==
    (last.op = "increment_node_ids" /\ last.out[1].done) =>
        last.out[1].completed \in 1..Len(graph_node)

\* two threads have counted two nodes and the counter stands at one
C21_LostCount ==
    /\ last.op = "increment_node_ids"
    /\ last.out[1].done
    /\ last.out[1].completed < Len(graph_node)

\* the counter of the edge loop may lose a count as well
C21_EdgeCountAsBuilt ==
    (last.op = "increment_node_ids" /\ last.out[1].done /\ graph_edge # <<>>) =>
        last.out[1].edge_completed \in 1..Len(graph_edge)

\* the second edge has its new ends while the first has its old ones
C21_EdgesHalfRenamed ==
    /\ Incrementing
    /\ 1 \notin last.out[1].edge_taken
    /\ \E t \in DOMAIN last.out[1].threads :
          last.out[1].threads[t].pc = "edge_count" /\ last.out[1].threads[t].item = 2

\* two threads have counted two edges and the counter stands at one
C21_LostEdgeCount ==
    /\ last.op = "increment_node_ids"
    /\ last.out[1].done
    /\ last.out[1].edge_completed < Len(graph_edge)

\* ------------------------------------------------------------------ phase unfolder

\* the walks of a haplotype over two nodes or more
Subwalks(h) == {SubSeq(h, a, b) : a \in 1..Len(h), b \in 2..Len(h)} \ {<<>>}

\* the border-to-border walks the haplotype index supports: over complement edges,
\* from a node of the input graph to the next node of the input graph
SupportedBorderWalks(haplotypes, missing, border) ==
    {w \in UNION {Subwalks(h) : h \in haplotypes} :
        /\ Len(w) >= 2
        /\ w[1] \in border /\ w[Len(w)] \in border
        /\ \A i \in 2..(Len(w) - 1) : w[i] \notin border
        /\ \A i \in 1..(Len(w) - 1) : <<w[i], w[i + 1]>> \in missing}

\* the nodes of the unfolded graph that stand for node n at place i of walk w
StandIns(original, w, i) ==
    IF i = 1 \/ i = Len(w) THEN {w[i]}
    ELSE {m \in DOMAIN original : original[m] = w[i]}

RECURSIVE StandInWalks(_, _, _)
StandInWalks(original, w, i) ==
    IF i > Len(w) THEN {<<>>}
    ELSE {<<m>> \o r : m \in StandIns(original, w, i),
                       r \in StandInWalks(original, w, i + 1)}

\* the graph has an edge from the end of node a to the start of node b
ForwardStep(a, b) ==
    /\ has_node(St, a)
    /\ \E i \in 1..Len(follow_edges(St, get_handle(a, FALSE), FALSE)) :
          follow_edges(St, get_handle(a, FALSE), FALSE)[i] = get_handle(b, FALSE)

\* the walks of the unfolded graph that are walk w over its own nodes
Realizations(original, w) ==
    {r \in StandInWalks(original, w, 1) :
        \A i \in 1..(Len(r) - 1) : ForwardStep(r[i], r[i + 1])}

InnerNodes(r) == {r[i] : i \in 2..(Len(r) - 1)}

\* the walks over added nodes only, from a walk on, of at most k more steps
RECURSIVE AddedWalks(_, _, _)
AddedWalks(original, walk, k) ==
    {walk} \cup
    (IF k = 0 THEN {}
     ELSE UNION {AddedWalks(original, Append(walk, g), k - 1) :
                    g \in {x \in (DOMAIN original) \X BOOLEAN :
                              \E i \in 1..Len(follow_edges(St, walk[Len(walk)], FALSE)) :
                                  follow_edges(St, walk[Len(walk)], FALSE)[i] = x}})

\* the walk of the original graph that a walk over added nodes is a copy of
OriginalWalk(original, walk) ==
    [i \in 1..Len(walk) |-> <<original[walk[i][1]], walk[i][2]>>]

\* C25: after unfold every supported border-to-border walk of every complement
\* component is a walk of the graph whose border nodes have their ids and whose
\* inner nodes are in no other such walk, and every walk over added nodes is a
\* copy of a walk the haplotype index supports.
C25_PhaseUnfold ==
    last.op = "phase_unfold" =>
        LET haplotypes == last.args[1]
            original == last.out[1]
            walks == SupportedBorderWalks(haplotypes, last.out[2], last.out[3])
        IN /\ \A w \in walks : Realizations(original, w) # {}
           /\ \A w \in walks : \A v \in walks \ {w} :
                 \A r \in Realizations(original, w) : \A q \in Realizations(original, v) :
                     InnerNodes(r) \cap InnerNodes(q) = {}
           /\ \A n \in last.out[3] : has_node(St, n)
           /\ \A m \in DOMAIN original : \A o \in BOOLEAN :
                 \A walk \in AddedWalks(original, <<<<m, o>>>>, MaxPhaseId) :
                     gbwt_contains(haplotypes, OriginalWalk(original, walk))

\* two supported walks between the same two border nodes shared an inner node and
\* were unfolded
C25_SharedInnerNodeUnfolded ==
    /\ last.op = "phase_unfold"
    /\ \E w \in SupportedBorderWalks(last.args[1], last.out[2], last.out[3]) :
       \E v \in SupportedBorderWalks(last.args[1], last.out[2], last.out[3]) :
          /\ w # v
          /\ InnerNodes(w) \cap InnerNodes(v) # {}
          /\ Realizations(last.out[1], w) # {}
          /\ Realizations(last.out[1], v) # {}

\* ------------------------------------------------------------------ C28
\* the rounds a call of normalize made: the length before and after each
RoundsMade == last.out[2]

\* C28 as it is stated: normalize(max_iter) runs to its end; it makes at least
\* one round and at most max_iter rounds, and a round that leaves the total
\* sequence length of the graph no smaller than it was before that round is
\* the last round made.
C28_AtMostMaxIterRounds ==
    last.op = "normalize" =>
        /\ last.out[1]
        /\ Len(RoundsMade) >= 1
        /\ Len(RoundsMade) <= last.args[1]
        /\ \A i \in 1..Len(RoundsMade) :
               RoundsMade[i][2] >= RoundsMade[i][1] => i = Len(RoundsMade)

\* C28: normalize(max_iter) runs to its end for every max_iter; it makes at
\* least one round, and at most max_iter rounds where max_iter is one or
\* more and exactly one round where max_iter is below one; a round that
\* leaves the total sequence length of the graph no smaller than it was
\* before that round is the last round made.
C28_NormalizeRounds ==
    last.op = "normalize" =>
        /\ last.out[1]
        /\ Len(RoundsMade) >= 1
        /\ Len(RoundsMade) <= (IF last.args[1] >= 1 THEN last.args[1] ELSE 1)
        /\ \A i \in 1..Len(RoundsMade) :
               RoundsMade[i][2] >= RoundsMade[i][1] => i = Len(RoundsMade)

\* a call with room for three rounds on a graph with a path stopped after
\* the second: the first round merged siblings, divided the mapping on one of
\* them and made the graph shorter, the second left the length as it was
C28_StoppedBeforeMaxIter ==
    /\ last.op = "normalize"
    /\ \E name \in DOMAIN paths : Len(paths[name]) > 1
    /\ last.args[1] = 3
    /\ Len(RoundsMade) = 2
    /\ RoundsMade[1][2] < RoundsMade[1][1]
    /\ RoundsMade[2][2] = RoundsMade[2][1]

\* no round of normalize makes the graph longer, so that the test for an
\* equal length in the code stops the loop in the rounds the claim speaks of
C28_NoRoundGrows ==
    last.op = "normalize" =>
        \A i \in 1..Len(RoundsMade) : RoundsMade[i][2] <= RoundsMade[i][1]

\* with max_iter below one the loop still makes its one round
C28_OneRoundBelowOne ==
    (last.op = "normalize" /\ last.args[1] < 1) => Len(RoundsMade) = 1

\* a call of normalize with max_iter below one was made
C28_CalledBelowOne ==
    last.op = "normalize" /\ last.args[1] < 1

\* ------------------------------------------------------------------ populate_snarl_index
\* the snarls the second pass populates: those that are not trivial
PopulatedSnarls == populated_snarls(last.args[1])

\* what populate_snarl_index leaves when the pass runs to its end: the snarl counts
\* its two boundaries and its children, a node found inside it has the snarl for
\* parent, and the rank of a boundary is written to the record of the lowest node
PopulateAsBuilt ==
    (last.op = "distance_pass" /\ last.out[1].status = "ok") =>
        \A s \in PopulatedSnarls :
            LET tdi == last.out[1]
                temp_snarl_record == tdi.temp_snarl_records[s + 1]
            IN /\ temp_snarl_record.start_node_rev /\ temp_snarl_record.end_node_rev
               /\ temp_snarl_record.node_count
                      = 2 + Len(temp_snarl_record.children)
                          + Cardinality({id \in DOMAIN last.args[6] : last.args[6][id] = s})
               /\ \A id \in DOMAIN last.args[6] :
                      last.args[6][id] = s =>
                          /\ tdi.temp_node_records[id].parent = <<"TEMP_SNARL", s>>
                          /\ tdi.temp_node_records[id].node_id = id
               /\ tdi.temp_node_records[1].rank_in_parent = temp_snarl_record.node_count - 1

\* a pass ran to its end over a populated snarl with a chain inside it
PopulatedWithChain ==
    /\ last.op = "distance_pass"
    /\ last.out[1].status = "ok"
    /\ \E s \in PopulatedSnarls : last.out[1].temp_snarl_records[s + 1].children # <<>>

\* a pass ran to its end over a populated snarl with a node inside it
PopulatedWithNode ==
    /\ last.op = "distance_pass"
    /\ last.out[1].status = "ok"
    /\ \E s \in PopulatedSnarls : \E id \in DOMAIN last.args[6] : last.args[6][id] = s

\* the assertion on a chain found inside a populated snarl ended the pass
PopulateAborted ==
    /\ last.op = "distance_pass"
    /\ last.out[1].status = "abort"

\* a populated snarl whose start boundary is read forward: the rank of the start is
\* written before the first node record
PopulateBeforeRecords ==
    (last.op = "distance_pass" /\ last.args[3] >= 0) =>
        \A s \in PopulatedSnarls :
            (/\ ~last.out[1].temp_snarl_records[s + 1].start_node_rev
             /\ \E k \in 1..Len(last.out[1].processed) :
                    last.out[1].temp_snarl_records[s + 1].parent
                        = <<"TEMP_CHAIN", last.out[1].processed[k]>>)
            => last.out[1].status # "ok"
====
